---- MODULE Spec2Model ----
(***************************************************************************)
(* UMABot (src/app.py): the spot ledger, the season clock, the daily bonus *)
(* assignment and the Assassin ring, as the handlers of app.py drive them  *)
(* against the PostgreSQL store.                                           *)
(*                                                                         *)
(* Every handler opens its own connection (psycopg2: one transaction per   *)
(* connection, READ COMMITTED).  A handler is a sequence of steps, one per *)
(* store statement or commit; pc[p] is the position of invocation p and    *)
(* loc[p] its local variables.  tx[p] is the uncommitted work of p's       *)
(* transaction.  The sequential specifications let one handler run at a    *)
(* time, the concurrent ones interleave the steps of several.              *)
(***************************************************************************)
EXTENDS Integers, Sequences, FiniteSets, TLC

\* ------------------------------------------------------------------ bounds
NumUsers == 3
NumProcs == 2
\* Invocations a concurrent specification delivers in one behaviour.
MaxCalls == 3

UserPool == <<"U1", "U2", "U3", "U4", "U5", "U6">>
Users == {UserPool[i] : i \in 1..NumUsers}
ChannelPool == <<"C1", "C2", "C3">>
Procs == 1..NumProcs

\* app.py:23
ADMIN_USER_ID == "U06HB636NHG"

\* The scope the ring specifications play in.
RingChannels == {ChannelPool[1]}

VARIABLES
    now,                    \* the clock: minutes since 2025-10-09 00:00 UTC
    daily_bonus_users,      \* the global dict channel -> set of bonus targets
    manual_reset_timestamps,\* the global dict channel -> instant of the reset
    spots,                  \* committed rows of table spots
    assassin_players,       \* committed rows of table assassin_players
    assassin_eliminations,  \* committed rows of table assassin_eliminations
    pc,                     \* pc[p]: the statement invocation p is at
    loc,                    \* loc[p]: the local variables of invocation p
    tx,                     \* tx[p]: the uncommitted work of p's connection
    calls                   \* invocations delivered so far (concurrent specs)

globals == <<now, daily_bonus_users, manual_reset_timestamps>>
store == <<spots, assassin_players, assassin_eliminations>>
vars == <<globals, store, pc, loc, tx, calls>>

\* ------------------------------------------------------ the season clock
\* An instant is a number of minutes since 2025-10-09 00:00 UTC.
MinutesPerDay == 1440
SeasonLengthDays == 14

\* SEASON_START_DATE = datetime(2025, 10, 9, 0, 0, 0, tzinfo=pytz.timezone(
\* 'America/Los_Angeles')): a pytz zone handed to the constructor keeps the
\* zone's first entry, local mean time, 7 h 53 min west of UTC.
SeasonStartFields == <<2025, 10, 9>>
LosAngelesLMT == 473
SEASON_START_DATE == LosAngelesLMT

\* datetime.now(pytz.timezone('America/Los_Angeles')) is localized: the zone
\* is on daylight time, 7 h west of UTC, until 2025-11-02.
LosAngelesPDT == 420

\* 00:00 Pacific time on the day `d` days after 2025-10-09.
LocalMidnight(d) == d * MinutesPerDay + LosAngelesPDT

DaysInMonth(y, m) ==
    IF m = 2
    THEN IF (y % 4 = 0 /\ y % 100 # 0) \/ y % 400 = 0 THEN 29 ELSE 28
    ELSE IF m \in {4, 6, 9, 11} THEN 30 ELSE 31

\* date + timedelta(days=n) on the calendar fields.
RECURSIVE AddDays(_, _)
AddDays(date, n) ==
    LET y == date[1]
        m == date[2]
        d == date[3]
        left == DaysInMonth(y, m) - d
    IN  IF n < 0
        THEN IF d + n >= 1 THEN <<y, m, d + n>>
             ELSE IF m = 1 THEN AddDays(<<y - 1, 12, 31>>, n + d)
             ELSE AddDays(<<y, m - 1, DaysInMonth(y, m - 1)>>, n + d)
        ELSE IF n <= left THEN <<y, m, d + n>>
        ELSE IF m = 12 THEN AddDays(<<y + 1, 1, 1>>, n - left - 1)
        ELSE AddDays(<<y, m + 1, 1>>, n - left - 1)

\* get_current_season_id() at instant t: strftime('%Y-%m-%d') of the start of
\* the season, as <<year, month, day>>.
get_current_season_id(t) ==
    LET delta_days == (t - SEASON_START_DATE) \div MinutesPerDay
        seasons_passed == delta_days \div SeasonLengthDays
    IN  AddDays(SeasonStartFields, seasons_passed * SeasonLengthDays)

\* ------------------------------------------------------------ the store
\* A row of assassin_players.  id is the SERIAL primary key: the code never
\* reads it, it only tells rows apart (the table has no other key).
PlayerRow(id, ch, player, target, active, kills) ==
    [id |-> id, channel_id |-> ch, player_id |-> player, target_id |-> target,
     is_active |-> active, kill_count |-> kills]

EliminationRow(id, ch, killer, victim) ==
    [id |-> id, channel_id |-> ch, killer_id |-> killer, victim_id |-> victim]

\* An open transaction: new versions of updated rows, ids of deleted rows,
\* rows inserted (no id before the commit makes them visible).
NoTx ==
    [updP |-> {}, delP |-> {}, insP |-> <<>>, delE |-> {}, insE |-> <<>>,
     insS |-> {}, delS |-> {}]

Ids(rows) == {r.id : r \in rows}

\* Row locks p's transaction holds on assassin_players / assassin_eliminations.
LockedP(p) == Ids(tx[p].updP) \cup tx[p].delP
LockedE(p) == tx[p].delE

\* A statement that writes the rows `ids` waits while another transaction
\* holds a lock on one of them.
FreeP(p, ids) == \A q \in Procs \ {p} : LockedP(q) \cap ids = {}
FreeE(p, ids) == \A q \in Procs \ {p} : LockedE(q) \cap ids = {}

\* What a statement of p sees of assassin_players: the committed rows, with
\* p's own updates and deletes applied.
VisibleP(p) ==
    {r \in assassin_players : r.id \notin LockedP(p)}
        \cup {r \in tx[p].updP : r.id \notin tx[p].delP}

\* The least n ids that `used` leaves free, as a sequence.
RECURSIVE FreshIds(_, _)
FreshIds(used, n) ==
    IF n = 0 THEN <<>>
    ELSE LET i == CHOOSE k \in 0..Cardinality(used) : k \notin used
         IN  <<i>> \o FreshIds(used \cup {i}, n - 1)

WithIds(rows, used) ==
    LET ids == FreshIds(used, Len(rows))
    IN  {[rows[i] EXCEPT !.id = ids[i]] : i \in 1..Len(rows)}

\* conn.commit(): the transaction's work becomes the committed state.
CommittedPlayers(p) ==
    LET kept == VisibleP(p)
    IN  kept \cup WithIds(tx[p].insP, Ids(kept))

CommittedEliminations(p) ==
    LET kept == {e \in assassin_eliminations : e.id \notin tx[p].delE}
    IN  kept \cup WithIds(tx[p].insE, Ids(kept))

\* UNIQUE (message_ts, spotted_id): the key of a row of spots.
SpotKey(r) == <<r.message_ts, r.spotted_id>>

CommittedSpots(p) == (spots \ tx[p].delS) \cup tx[p].insS

Commit(p) ==
    /\ spots' = CommittedSpots(p)
    /\ assassin_players' = CommittedPlayers(p)
    /\ assassin_eliminations' = CommittedEliminations(p)
    /\ tx' = [tx EXCEPT ![p] = NoTx]

\* ---------------------------------------------------------- invocations
None == <<>>

NoLoc ==
    [op |-> "none", channel_id |-> "", user_id |-> "", victim_id |-> "",
     mentioned_users |-> {}, players |-> <<>>,
     killer_data |-> None, victim_data |-> None, new_target_id |-> "",
     active_players |-> {}, winner_id |-> "", result |-> "",
     message_ts |-> 0, todo |-> <<>>, successful_spots |-> 0,
     txn_now |-> -1, current_season |-> None, results |-> <<>>,
     new_bonus_assignments |-> <<>>, has_files |-> FALSE, target_id |-> "",
     previous_season_id |-> None, error |-> ""]

\* `return` or the end of the try block: on to the finally block.
Leave(p, l, res) ==
    /\ pc' = [pc EXCEPT ![p] = "finally"]
    /\ loc' = [loc EXCEPT ![p] = [l EXCEPT !.result = res]]

Goto(p, label) == pc' = [pc EXCEPT ![p] = label]

\* A plausible slip: closing the connection commits what is pending.
Finally_Commits(p) ==
    /\ pc[p] = "finally"
    /\ pc' = [pc EXCEPT ![p] = "idle"]
    /\ loc' = [loc EXCEPT ![p] = NoLoc]
    /\ Commit(p)

\* finally: cur.close(); conn.close() -- an uncommitted transaction is
\* rolled back and its locks are released; the invocation is over.
Finally(p) ==
    /\ pc[p] = "finally"
    /\ pc' = [pc EXCEPT ![p] = "idle"]
    /\ loc' = [loc EXCEPT ![p] = NoLoc]
    /\ tx' = [tx EXCEPT ![p] = NoTx]
    /\ UNCHANGED store

\* ------------------------------------------------- handle_assassin_start_command
\* random.shuffle(players): every order of the players.
Shuffles(S) ==
    {s \in [1..Cardinality(S) -> S] : \A i, j \in DOMAIN s : s[i] = s[j] => i = j}

\* A plausible slip: players[i % len(players)], every player its own target.
TargetInOrder_Self(players, i) == players[((i - 1) % Len(players)) + 1]

\* target_id = players[(i + 1) % len(players)], for the i-th player (from 1).
TargetInOrder(players, i) == players[(i % Len(players)) + 1]

StartBegin(p, ch, starter, mentioned) ==
    /\ pc[p] = "idle"
    /\ LET l == [NoLoc EXCEPT !.op = "start", !.channel_id = ch,
                              !.user_id = starter, !.mentioned_users = mentioned]
       IN  IF starter # ADMIN_USER_ID
           THEN Leave(p, l, "NotAdmin")
           ELSE /\ Goto(p, "start_count")
                /\ loc' = [loc EXCEPT ![p] = l]
    /\ UNCHANGED <<store, tx>>

\* A plausible slip: two players are enough.
StartCheck_TwoPlayers(active_game_count, mentioned_users) ==
    IF active_game_count > 0 THEN "AlreadyActive"
    ELSE IF Cardinality(mentioned_users) < 2 THEN "InsufficientPlayers"
    ELSE "ok"

\* A plausible slip: the running game is not looked for.
StartCheck_NoCount(active_game_count, mentioned_users) ==
    IF Cardinality(mentioned_users) < 3 THEN "InsufficientPlayers"
    ELSE "ok"

\* if active_game_count > 0: ... return; if len(mentioned_users) < 3: ...
\* return, in the order of the code.
StartCheck(active_game_count, mentioned_users) ==
    IF active_game_count > 0 THEN "AlreadyActive"
    ELSE IF Cardinality(mentioned_users) < 3 THEN "InsufficientPlayers"
    ELSE "ok"

\* 1. SELECT COUNT(*) ... is_active = TRUE; 2. gather the players.
StartCount(p) ==
    /\ pc[p] = "start_count"
    /\ LET active_game_count ==
               Cardinality({r \in VisibleP(p) :
                   r.channel_id = loc[p].channel_id /\ r.is_active})
           check == StartCheck(active_game_count, loc[p].mentioned_users)
       IN  IF check # "ok"
           THEN Leave(p, loc[p], check)
           ELSE /\ Goto(p, "start_delete_players")
                /\ UNCHANGED loc
    /\ UNCHANGED <<store, tx>>

\* 3. DELETE FROM assassin_players WHERE channel_id = %s
StartDeletePlayers(p) ==
    /\ pc[p] = "start_delete_players"
    /\ LET ids == Ids({r \in VisibleP(p) : r.channel_id = loc[p].channel_id})
       IN  /\ FreeP(p, ids)
           /\ tx' = [tx EXCEPT ![p].delP = @ \cup ids]
    /\ Goto(p, "start_delete_eliminations")
    /\ UNCHANGED <<store, loc>>

\* A plausible slip: the log of the earlier game is not deleted.
StartDeleteEliminations_Skipped(p) ==
    /\ pc[p] = "start_delete_eliminations"
    /\ Goto(p, "start_insert")
    /\ UNCHANGED <<store, loc, tx>>

\* DELETE FROM assassin_eliminations WHERE channel_id = %s
StartDeleteEliminations(p) ==
    /\ pc[p] = "start_delete_eliminations"
    /\ LET ids == Ids({e \in assassin_eliminations :
                          e.channel_id = loc[p].channel_id /\ e.id \notin tx[p].delE})
       IN  /\ FreeE(p, ids)
           /\ tx' = [tx EXCEPT ![p].delE = @ \cup ids]
    /\ Goto(p, "start_insert")
    /\ UNCHANGED <<store, loc>>

\* random.shuffle(players); 4. one INSERT per player, its target the next
\* player of the shuffled list.  The inserts take no lock and nobody sees
\* them before the commit, so the loop is one step.
StartInsert(p) ==
    /\ pc[p] = "start_insert"
    /\ \E players \in Shuffles(loc[p].mentioned_users) :
          /\ tx' = [tx EXCEPT ![p].insP = @ \o
                      [i \in 1..Len(players) |->
                          PlayerRow(0, loc[p].channel_id, players[i],
                                    TargetInOrder(players, i), TRUE, 0)]]
          /\ loc' = [loc EXCEPT ![p].players = players]
    /\ Goto(p, "start_commit")
    /\ UNCHANGED store

\* conn.commit()
StartCommit(p) ==
    /\ pc[p] = "start_commit"
    /\ Commit(p)
    /\ Goto(p, "start_announce")
    /\ UNCHANGED loc

\* 5. say(...) and one DM per player; nothing of the store changes.
StartAnnounce(p) ==
    /\ pc[p] = "start_announce"
    /\ Leave(p, loc[p], "Started")
    /\ UNCHANGED <<store, tx>>

\* ------------------------------------------------- handle_eliminated_command
\* cur.fetchone() of SELECT target_id, is_active ... WHERE player_id = %s AND
\* channel_id = %s: one of the matching rows, or None.
FetchPlayer(p, player, ch) ==
    LET rows == {r \in VisibleP(p) : r.player_id = player /\ r.channel_id = ch}
    IN  IF rows = {} THEN {None}
        ELSE {<<r.target_id, r.is_active>> : r \in rows}

\* 1. Basic validation: proof attached, a player mentioned.
ElimBegin(p, ch, killer, victims, has_files) ==
    /\ pc[p] = "idle"
    /\ LET l == [NoLoc EXCEPT !.op = "eliminate", !.channel_id = ch,
                              !.user_id = killer, !.has_files = has_files]
       IN  IF ~has_files
           THEN Leave(p, l, "MissingEvidence")
           ELSE IF victims = <<>>
           THEN Leave(p, l, "NoMention")
           ELSE /\ Goto(p, "elim_select_killer")
                /\ loc' = [loc EXCEPT ![p] = [l EXCEPT !.victim_id = victims[1]]]
    /\ UNCHANGED <<store, tx>>

\* A plausible slip: the target is not compared with the mentioned player.
KillerCheck_NoTarget(killer_data, victim_id) ==
    IF killer_data = None THEN "NotAPlayer"
    ELSE IF ~killer_data[2] THEN "KillerEliminated"
    ELSE "ok"

\* A plausible slip: the target is compared before the killer's own flag.
KillerCheck_TargetFirst(killer_data, victim_id) ==
    IF killer_data = None THEN "NotAPlayer"
    ELSE IF killer_data[1] # victim_id THEN "WrongTarget"
    ELSE IF ~killer_data[2] THEN "KillerEliminated"
    ELSE "ok"

\* The checks on killer_data, in the order of the code.
KillerCheck(killer_data, victim_id) ==
    IF killer_data = None THEN "NotAPlayer"
    ELSE IF ~killer_data[2] THEN "KillerEliminated"
    ELSE IF killer_data[1] # victim_id THEN "WrongTarget"
    ELSE "ok"

\* 2. Advanced validation, the killer's row.
ElimSelectKiller(p) ==
    /\ pc[p] = "elim_select_killer"
    /\ \E killer_data \in FetchPlayer(p, loc[p].user_id, loc[p].channel_id) :
          LET l == [loc[p] EXCEPT !.killer_data = killer_data]
              verdict == KillerCheck(killer_data, loc[p].victim_id)
          IN  IF verdict # "ok"
              THEN Leave(p, l, verdict)
              ELSE /\ Goto(p, "elim_select_victim")
                   /\ loc' = [loc EXCEPT ![p] = l]
    /\ UNCHANGED <<store, tx>>

\* The victim's row; 3. new_target_id = victim_data[0].
ElimSelectVictim(p) ==
    /\ pc[p] = "elim_select_victim"
    /\ \E victim_data \in FetchPlayer(p, loc[p].victim_id, loc[p].channel_id) :
          LET l == [loc[p] EXCEPT !.victim_data = victim_data]
          IN  IF victim_data = None \/ ~victim_data[2]
              THEN Leave(p, l, "VictimAlreadyEliminated")
              ELSE /\ Goto(p, "elim_update_victim")
                   /\ loc' = [loc EXCEPT ![p] =
                                 [l EXCEPT !.new_target_id = victim_data[1]]]
    /\ UNCHANGED <<store, tx>>

\* A plausible slip: WHERE player_id = %s, without the channel.
WherePlayer_AnyChannel(p, player, ch) ==
    {r \in VisibleP(p) : r.player_id = player}

\* UPDATE assassin_players SET ... WHERE player_id = %s AND channel_id = %s:
\* waits for the rows' locks, then writes the latest version of each row.
WherePlayer(p, player, ch) ==
    {r \in VisibleP(p) : r.player_id = player /\ r.channel_id = ch}

UpdatePlayers(p, rows, written) ==
    /\ FreeP(p, Ids(rows))
    /\ tx' = [tx EXCEPT ![p].updP =
                 {r \in @ : r.id \notin Ids(rows)} \cup written]

\* A plausible slip: the victim's row is written back as it was.
Deactivate_Nothing(r) == r

Deactivate(r) == [r EXCEPT !.is_active = FALSE]

\* A plausible slip: the kill is counted and the target left as it was.
Retarget_KeepTarget(r, new_target_id) == [r EXCEPT !.kill_count = @ + 1]

\* A plausible slip: the target is passed on and the kill not counted.
Retarget_NoCount(r, new_target_id) == [r EXCEPT !.target_id = new_target_id]

\* SET target_id = %s, kill_count = kill_count + 1
Retarget(r, new_target_id) ==
    [r EXCEPT !.target_id = new_target_id, !.kill_count = @ + 1]

\* UPDATE assassin_players SET is_active = FALSE (the victim)
ElimUpdateVictim(p) ==
    /\ pc[p] = "elim_update_victim"
    /\ LET rows == WherePlayer(p, loc[p].victim_id, loc[p].channel_id)
       IN  UpdatePlayers(p, rows, {Deactivate(r) : r \in rows})
    /\ Goto(p, "elim_update_killer")
    /\ UNCHANGED <<store, loc>>

\* UPDATE assassin_players SET target_id = %s, kill_count = kill_count + 1
ElimUpdateKiller(p) ==
    /\ pc[p] = "elim_update_killer"
    /\ LET rows == WherePlayer(p, loc[p].user_id, loc[p].channel_id)
       IN  UpdatePlayers(p, rows,
                         {Retarget(r, loc[p].new_target_id) : r \in rows})
    /\ Goto(p, "elim_insert_log")
    /\ UNCHANGED <<store, loc>>

\* A plausible slip: the elimination is not logged.
ElimInsertLog_Skipped(p) ==
    /\ pc[p] = "elim_insert_log"
    /\ Goto(p, "elim_commit")
    /\ UNCHANGED <<store, loc, tx>>

\* INSERT INTO assassin_eliminations (channel_id, killer_id, victim_id)
ElimInsertLog(p) ==
    /\ pc[p] = "elim_insert_log"
    /\ tx' = [tx EXCEPT ![p].insE = Append(@,
                 EliminationRow(0, loc[p].channel_id, loc[p].user_id,
                                loc[p].victim_id))]
    /\ Goto(p, "elim_commit")
    /\ UNCHANGED <<store, loc>>

\* conn.commit()
ElimCommit(p) ==
    /\ pc[p] = "elim_commit"
    /\ Commit(p)
    /\ Goto(p, "elim_recount")
    /\ UNCHANGED loc

\* A plausible slip: the game is over when nobody is left.
GameOver_NoneLeft(active_players) == active_players = 0

\* if len(active_players) == 1
GameOver(active_players) == active_players = 1

\* 4. SELECT player_id ... is_active = TRUE; one left: announce the winner,
\* else announce the elimination and tell the killer the new target.
ElimRecount(p) ==
    /\ pc[p] = "elim_recount"
    /\ LET active_players ==
               {r.player_id : r \in {x \in VisibleP(p) :
                   x.channel_id = loc[p].channel_id /\ x.is_active}}
           active_rows ==
               Cardinality({x \in VisibleP(p) :
                   x.channel_id = loc[p].channel_id /\ x.is_active})
           l == [loc[p] EXCEPT !.active_players = active_players]
       IN  IF GameOver(active_rows)
           THEN /\ Goto(p, "elim_purge")
                /\ loc' = [loc EXCEPT ![p] =
                      [l EXCEPT !.winner_id = CHOOSE w \in active_players : TRUE]]
           ELSE Leave(p, l, "Continue")
    /\ UNCHANGED <<store, tx>>

\* DELETE FROM assassin_players WHERE channel_id = %s
ElimPurge(p) ==
    /\ pc[p] = "elim_purge"
    /\ LET ids == Ids({r \in VisibleP(p) : r.channel_id = loc[p].channel_id})
       IN  /\ FreeP(p, ids)
           /\ tx' = [tx EXCEPT ![p].delP = @ \cup ids]
    /\ Goto(p, "elim_purge_commit")
    /\ UNCHANGED <<store, loc>>

\* conn.commit()
ElimPurgeCommit(p) ==
    /\ pc[p] = "elim_purge_commit"
    /\ Commit(p)
    /\ Leave(p, loc[p], "Win")

\* ------------------------------------------- handle_assassin_target_command
TargetBegin(p, ch, player) ==
    /\ pc[p] = "idle"
    /\ Goto(p, "target_select")
    /\ loc' = [loc EXCEPT ![p] =
          [NoLoc EXCEPT !.op = "target", !.channel_id = ch, !.user_id = player]]
    /\ UNCHANGED <<store, tx>>

\* A plausible slip: the active flag of the row is not looked at.
TargetCheck_AnyRow(row) ==
    IF row = None THEN "NotAPlayer" ELSE "Target"

\* if not result: ... return; if not is_active: ... return
TargetCheck(row) ==
    IF row = None THEN "NotAPlayer"
    ELSE IF ~row[2] THEN "AlreadyEliminated"
    ELSE "Target"

\* SELECT target_id, is_active ... ; the answer to the player.
TargetSelect(p) ==
    /\ pc[p] = "target_select"
    /\ \E row \in FetchPlayer(p, loc[p].user_id, loc[p].channel_id) :
          Leave(p, [loc[p] EXCEPT !.target_id =
                       IF TargetCheck(row) = "Target" THEN row[1] ELSE ""],
                TargetCheck(row))
    /\ UNCHANGED <<store, tx>>

\* ----------------------------------------------- handle_assassin_end_request
EndRequestBegin(p, ch, user) ==
    /\ pc[p] = "idle"
    /\ LET l == [NoLoc EXCEPT !.op = "end_request", !.channel_id = ch,
                              !.user_id = user]
       IN  IF user # ADMIN_USER_ID
           THEN Leave(p, l, "NotAdmin")
           ELSE /\ Goto(p, "end_request_count")
                /\ loc' = [loc EXCEPT ![p] = l]
    /\ UNCHANGED <<store, tx>>

\* SELECT COUNT(*) ... is_active = TRUE: without an active player the request
\* is answered "no active game" and ends; with one, the confirmation button
\* is shown.
EndRequestCount(p) ==
    /\ pc[p] = "end_request_count"
    /\ LET active_game_count ==
               Cardinality({r \in VisibleP(p) :
                   r.channel_id = loc[p].channel_id /\ r.is_active})
       IN  Leave(p, loc[p], IF active_game_count = 0 THEN "NoActiveGame"
                                                   ELSE "ConfirmOffered")
    /\ UNCHANGED <<store, tx>>

\* ------------------------------------------------- handle_confirm_end_action
\* The click on a confirmation button; the button of an earlier request stays
\* on the requester's screen until it is used.
EndBegin(p, ch) ==
    /\ pc[p] = "idle"
    /\ Goto(p, "end_delete_players")
    /\ loc' = [loc EXCEPT ![p] = [NoLoc EXCEPT !.op = "end", !.channel_id = ch]]
    /\ UNCHANGED <<store, tx>>

\* DELETE FROM assassin_players WHERE channel_id = %s
EndDeletePlayers(p) ==
    /\ pc[p] = "end_delete_players"
    /\ LET ids == Ids({r \in VisibleP(p) : r.channel_id = loc[p].channel_id})
       IN  /\ FreeP(p, ids)
           /\ tx' = [tx EXCEPT ![p].delP = @ \cup ids]
    /\ Goto(p, "end_delete_eliminations")
    /\ UNCHANGED <<store, loc>>

\* DELETE FROM assassin_eliminations WHERE channel_id = %s
EndDeleteEliminations(p) ==
    /\ pc[p] = "end_delete_eliminations"
    /\ LET ids == Ids({e \in assassin_eliminations :
                          e.channel_id = loc[p].channel_id /\ e.id \notin tx[p].delE})
       IN  /\ FreeE(p, ids)
           /\ tx' = [tx EXCEPT ![p].delE = @ \cup ids]
    /\ Goto(p, "end_commit")
    /\ UNCHANGED <<store, loc>>

\* conn.commit(); say(...)
EndCommit(p) ==
    /\ pc[p] = "end_commit"
    /\ Commit(p)
    /\ Leave(p, loc[p], "Ended")

\* ------------------------------------------------------- the global dicts
\* A plausible slip: d.setdefault(k, v), an earlier value is kept.
Put_KeepFirst(d, k, v) ==
    [x \in DOMAIN d \cup {k} |-> IF x \in DOMAIN d THEN d[x] ELSE v]

\* A dict is a function on its keys.
Put(d, k, v) == [x \in DOMAIN d \cup {k} |-> IF x = k THEN v ELSE d[x]]
EmptyDict == <<>>

\* ------------------------------------------------------ handle_spot_message
SpotRow(spotter, spotted, ch, ts, season, points, created) ==
    [spotter_id |-> spotter, spotted_id |-> spotted, channel_id |-> ch,
     message_ts |-> ts, season_id |-> season, spotter_points |-> points,
     caught_points |-> 1, is_valid |-> TRUE, created_at |-> created]

\* Transactions other than p's that p's INSERT of `key` has to wait for: one
\* that has inserted the key and not committed, or that is deleting the
\* committed row with the key.
InsertWaitsFor(p, key) ==
    {q \in Procs \ {p} :
        \/ \E r \in tx[q].insS : SpotKey(r) = key
        \/ \E r \in tx[q].delS : SpotKey(r) = key}

\* A plausible slip: the table is created without UNIQUE (message_ts,
\* spotted_id).
UniqueViolation_None(p, key) == FALSE

\* The INSERT of `key` by p violates UNIQUE (message_ts, spotted_id).
UniqueViolation(p, key) ==
    \E r \in (spots \ tx[p].delS) \cup tx[p].insS : SpotKey(r) = key

\* spotter_points_to_award: 2 when spotted_id is a bonus target of the channel.
BonusPoints(ch, spotted) ==
    IF ch \in DOMAIN daily_bonus_users /\ spotted \in daily_bonus_users[ch]
    THEN 2 ELSE 1

\* The message carries 'user', 'files' and 'text'; mentioned_users is not empty.
SpotBegin(p, m) ==
    /\ pc[p] = "idle"
    /\ LET l == [NoLoc EXCEPT !.op = "spot", !.channel_id = m.channel,
                              !.user_id = m.user, !.message_ts = m.ts,
                              !.mentioned_users = m.mentioned]
       IN  IF ~m.files \/ m.mentioned = {}
           THEN /\ pc' = [pc EXCEPT ![p] = "idle"]
                /\ loc' = [loc EXCEPT ![p] = NoLoc]
           ELSE \E order \in Shuffles(m.mentioned) :
                   /\ Goto(p, "spot_insert")
                   /\ loc' = [loc EXCEPT ![p] = [l EXCEPT !.todo = order]]
    /\ UNCHANGED <<globals, store, tx>>

\* for spotted_id in mentioned_users: skip the spotter, INSERT INTO spots.
\* created_at defaults to NOW(), the instant the transaction began: that of
\* the first statement on the connection.
SpotInsert(p) ==
    /\ pc[p] = "spot_insert"
    /\ loc[p].todo # <<>>
    /\ LET spotted_id == Head(loc[p].todo)
           key == <<loc[p].message_ts, spotted_id>>
           txn_now == IF loc[p].txn_now < 0 THEN now ELSE loc[p].txn_now
           row == SpotRow(loc[p].user_id, spotted_id, loc[p].channel_id,
                          loc[p].message_ts, get_current_season_id(now),
                          BonusPoints(loc[p].channel_id, spotted_id), txn_now)
           l == [loc[p] EXCEPT !.todo = Tail(@)]
       IN  IF loc[p].user_id = spotted_id
           THEN /\ loc' = [loc EXCEPT ![p] = l]
                /\ UNCHANGED <<pc, tx>>
           ELSE /\ InsertWaitsFor(p, key) = {}
                /\ IF UniqueViolation(p, key)
                   THEN /\ Leave(p, [loc[p] EXCEPT !.txn_now = txn_now],
                                 "ErrorLogged")
                        /\ UNCHANGED tx
                   ELSE /\ tx' = [tx EXCEPT ![p].insS = @ \cup {row}]
                        /\ loc' = [loc EXCEPT ![p] =
                              [l EXCEPT !.successful_spots = @ + 1,
                                        !.txn_now = txn_now]]
                        /\ UNCHANGED pc
    /\ UNCHANGED <<globals, store>>

\* conn.commit(); reactions_add when successful_spots > 0
SpotCommit(p) ==
    /\ pc[p] = "spot_insert"
    /\ loc[p].todo = <<>>
    /\ Commit(p)
    /\ Leave(p, loc[p], IF loc[p].successful_spots > 0 THEN "Recorded" ELSE "Nothing")
    /\ UNCHANGED globals

\* The store ends a deadlock of transactions waiting for each other's rows by
\* failing the statement of one of them: the handler's except branch.
SpotDeadlock(p) ==
    /\ pc[p] = "spot_insert"
    /\ loc[p].todo # <<>>
    /\ loc[p].user_id # Head(loc[p].todo)
    /\ \E q \in InsertWaitsFor(p, <<loc[p].message_ts, Head(loc[p].todo)>>) :
          /\ pc[q] = "spot_insert"
          /\ loc[q].todo # <<>>
          /\ p \in InsertWaitsFor(q, <<loc[q].message_ts, Head(loc[q].todo)>>)
    /\ Leave(p, loc[p], "ErrorLogged")
    /\ UNCHANGED <<globals, store, tx>>

\* -------------------------------------------------- handle_message_deletion
DeletionBegin(p, ts) ==
    /\ pc[p] = "idle"
    /\ Goto(p, "deletion_delete")
    /\ loc' = [loc EXCEPT ![p] = [NoLoc EXCEPT !.op = "deletion", !.message_ts = ts]]
    /\ UNCHANGED <<globals, store, tx>>

\* DELETE FROM spots WHERE message_ts = %s
\* A plausible slip: one record of the message is deleted, not all.
DeletionRows_One(deleted_ts) ==
    LET rows == {r \in spots : r.message_ts = deleted_ts}
    IN  IF rows = {} THEN {} ELSE {CHOOSE r \in rows : TRUE}

\* WHERE message_ts = %s
DeletionRows(deleted_ts) == {r \in spots : r.message_ts = deleted_ts}

DeletionDelete(p) ==
    /\ pc[p] = "deletion_delete"
    /\ LET rows == DeletionRows(loc[p].message_ts)
       IN  /\ \A q \in Procs \ {p} : tx[q].delS \cap rows = {}
           /\ tx' = [tx EXCEPT ![p].delS = @ \cup rows]
           /\ loc' = [loc EXCEPT ![p].successful_spots = Cardinality(rows)]
    /\ Goto(p, "deletion_commit")
    /\ UNCHANGED <<globals, store>>

\* conn.commit()
DeletionCommit(p) ==
    /\ pc[p] = "deletion_commit"
    /\ Commit(p)
    /\ Leave(p, loc[p], "Deleted")
    /\ UNCHANGED globals

\* ------------------------------------------------------- the leaderboards
RECURSIVE SumOf(_, _)
SumOf(rows, col) ==
    IF rows = {} THEN 0
    ELSE LET r == CHOOSE x \in rows : TRUE
         IN  r[col] + SumOf(rows \ {r}, col)

\* A plausible slip: the reset floor is not added to the query.
SeasonFilter_NoFloor(ch, season) ==
    {r \in spots : r.is_valid /\ r.season_id = season /\ r.channel_id = ch}

\* WHERE is_valid = TRUE AND season_id = %s AND channel_id = %s, and
\* AND created_at >= %s when the channel is in manual_reset_timestamps.
SeasonFilter(ch, season) ==
    LET base == {r \in spots :
                    r.is_valid /\ r.season_id = season /\ r.channel_id = ch}
    IN  IF ch \in DOMAIN manual_reset_timestamps
        THEN {r \in base : r.created_at >= manual_reset_timestamps[ch]}
        ELSE base

\* SELECT <who>, SUM(<points>) ... GROUP BY <who>
GroupSum(rows, who, points) ==
    {<<u, SumOf({r \in rows : r[who] = u}, points)>> : u \in {r[who] : r \in rows}}

BoardLimit == 5

\* ORDER BY total_score DESC LIMIT 5: the groups in an order of falling
\* totals (groups of equal total in any order), cut to the limit.
OrderedLimited(groups) ==
    {SubSeq(s, 1, IF Len(s) < BoardLimit THEN Len(s) ELSE BoardLimit) :
        s \in {o \in Shuffles(groups) :
                  \A i \in 1..(Len(o) - 1) : o[i][2] >= o[i + 1][2]}}

\* handle_spotboard_command (by = "spotter") / handle_caughtboard_command
\* (by = "spotted"): the query of the seasonal board.
BoardBegin(p, ch, by) ==
    /\ pc[p] = "idle"
    /\ Goto(p, "board_query")
    /\ loc' = [loc EXCEPT ![p] =
          [NoLoc EXCEPT !.op = by, !.channel_id = ch,
                        !.current_season = get_current_season_id(now)]]
    /\ UNCHANGED <<globals, store, tx>>

BoardQuery(p) ==
    /\ pc[p] = "board_query"
    /\ LET rows == SeasonFilter(loc[p].channel_id, loc[p].current_season)
           groups == IF loc[p].op = "spotter"
                     THEN GroupSum(rows, "spotter_id", "spotter_points")
                     ELSE GroupSum(rows, "spotted_id", "caught_points")
       IN  \E results \in OrderedLimited(groups) :
               Leave(p, [loc[p] EXCEPT !.results = results],
                     IF results = <<>> THEN "Empty" ELSE "Board")
    /\ UNCHANGED <<globals, store, tx>>

\* ------------------------------------------------ handle_confirm_reset_action
\* A plausible slip: the winner query keeps the floor of the seasonal boards.
SeasonWinner_SinceFloor(ch, season) ==
    LET groups == GroupSum(SeasonFilter(ch, season),
                           "spotter_id", "spotter_points")
    IN  IF groups = {} THEN {None}
        ELSE {g \in groups : \A h \in groups : g[2] >= h[2]}

\* announce_season_winner(season_to_end_id, channel_id, is_manual_reset=True):
\* SELECT spotter_id, SUM(spotter_points) ... ORDER BY total_score DESC LIMIT 1
SeasonWinner(ch, season) ==
    LET groups == GroupSum({r \in spots : r.season_id = season
                               /\ r.channel_id = ch /\ r.is_valid},
                           "spotter_id", "spotter_points")
    IN  IF groups = {} THEN {None}
        ELSE {g \in groups : \A h \in groups : g[2] >= h[2]}

ResetBegin(p, ch) ==
    /\ pc[p] = "idle"
    /\ Goto(p, "reset_announce")
    /\ loc' = [loc EXCEPT ![p] =
          [NoLoc EXCEPT !.op = "reset", !.channel_id = ch,
                        !.current_season = get_current_season_id(now)]]
    /\ UNCHANGED <<globals, store, tx>>

ResetAnnounce(p) ==
    /\ pc[p] = "reset_announce"
    /\ \E winner_result \in SeasonWinner(loc[p].channel_id, loc[p].current_season) :
          loc' = [loc EXCEPT ![p].results = <<winner_result>>]
    /\ Goto(p, "reset_set")
    /\ UNCHANGED <<globals, store, tx>>

\* manual_reset_timestamps[channel_id] = datetime.now(...)
ResetSet(p) ==
    /\ pc[p] = "reset_set"
    /\ manual_reset_timestamps' =
           Put(manual_reset_timestamps, loc[p].channel_id, now)
    /\ Leave(p, loc[p], "Reset")
    /\ UNCHANGED <<now, daily_bonus_users, store, tx>>

\* ----------------------------------------------------------- daily_bonus_job
\* SELECT DISTINCT user_id FROM (spotter_id UNION spotted_id of the channel)
Participants(ch) ==
    {r.spotter_id : r \in {x \in spots : x.channel_id = ch}}
        \cup {r.spotted_id : r \in {x \in spots : x.channel_id = ch}}

\* A plausible slip: one participant is enough, and is the only target.
BonusTargets_AtLeastOne(participants) ==
    IF Cardinality(participants) >= 1
    THEN {{u} : u \in participants}
    ELSE {}

\* if len(participants) >= 2: set(random.sample(participants, 2)), every pair
\* of two participants; no pair otherwise.
BonusTargets(participants) ==
    IF Cardinality(participants) >= 2
    THEN {t \in SUBSET participants : Cardinality(t) = 2}
    ELSE {}

\* daily_bonus_users.clear()
BonusClear(p) ==
    /\ pc[p] = "idle"
    /\ daily_bonus_users' = EmptyDict
    /\ Goto(p, "bonus_channels")
    /\ loc' = [loc EXCEPT ![p] = [NoLoc EXCEPT !.op = "bonus"]]
    /\ UNCHANGED <<now, manual_reset_timestamps, store, tx>>

\* SELECT DISTINCT channel_id FROM spots; new_bonus_assignments = {}
BonusChannels(p) ==
    /\ pc[p] = "bonus_channels"
    /\ \E active_channels \in Shuffles({r.channel_id : r \in spots}) :
          loc' = [loc EXCEPT ![p].todo = active_channels,
                             ![p].new_bonus_assignments = EmptyDict]
    /\ Goto(p, "bonus_assign")
    /\ UNCHANGED <<globals, store, tx>>

\* for channel_id in active_channels: the participants, two of them drawn
\* into new_bonus_assignments[channel_id], the announcement.
BonusAssign(p) ==
    /\ pc[p] = "bonus_assign"
    /\ loc[p].todo # <<>>
    /\ LET channel_id == Head(loc[p].todo)
           draws == BonusTargets(Participants(channel_id))
       IN  IF draws = {}
           THEN loc' = [loc EXCEPT ![p].todo = Tail(@)]
           ELSE \E bonus_targets \in draws :
                   loc' = [loc EXCEPT ![p].todo = Tail(@),
                              ![p].new_bonus_assignments =
                                  Put(@, channel_id, bonus_targets)]
    /\ UNCHANGED <<pc, globals, store, tx>>

\* daily_bonus_users = new_bonus_assignments
BonusSwap(p) ==
    /\ pc[p] = "bonus_assign"
    /\ loc[p].todo = <<>>
    /\ daily_bonus_users' = loc[p].new_bonus_assignments
    /\ Leave(p, loc[p], "Assigned")
    /\ UNCHANGED <<now, manual_reset_timestamps, store, tx>>

\* handle_daily_bonus_command: the targets of the channel, read from the dict.
BonusShow(p, ch) ==
    /\ pc[p] = "idle"
    /\ LET l == [NoLoc EXCEPT !.op = "dailybonus", !.channel_id = ch]
       IN  IF ch \in DOMAIN daily_bonus_users /\ daily_bonus_users[ch] # {}
           THEN Leave(p, [l EXCEPT !.mentioned_users = daily_bonus_users[ch]],
                      "Targets")
           ELSE Leave(p, l, "NoTargets")
    /\ UNCHANGED <<globals, store, tx>>

\* handle_mention, command "test bonus": any user's mention runs
\* daily_bonus_job() at once; user_id records who asked.
MentionTestBonus(p, user) ==
    /\ pc[p] = "idle"
    /\ daily_bonus_users' = EmptyDict
    /\ Goto(p, "bonus_channels")
    /\ loc' = [loc EXCEPT ![p] = [NoLoc EXCEPT !.op = "bonus", !.user_id = user]]
    /\ UNCHANGED <<now, manual_reset_timestamps, store, tx>>

\* scheduler.add_job(daily_bonus_job, 'cron', hour=0, minute=0), timezone
\* America/Los_Angeles: the job starts when the clock shows local midnight.
LocalMidnightNow == (now - LosAngelesPDT) % MinutesPerDay = 0

ScheduledBonus(p) ==
    /\ LocalMidnightNow
    /\ BonusClear(p)

\* ------------------------------------------------------------- the clock
\* Time passes: the clock shows the later instant t.
ClockAdvance(t) ==
    /\ t > now
    /\ now' = t
    /\ UNCHANGED <<daily_bonus_users, manual_reset_timestamps, store, pc, loc, tx>>

\* get_current_season_id() called at the present instant.
SeasonCall(p) ==
    /\ pc[p] = "idle"
    /\ Leave(p, [NoLoc EXCEPT !.op = "season",
                              !.current_season = get_current_season_id(now)],
             "Season")
    /\ UNCHANGED <<globals, store, tx>>

\* ------------------------------------------------------- specifications
Init ==
    /\ assassin_players = {}
    /\ assassin_eliminations = {}
    /\ pc = [p \in Procs |-> "idle"]
    /\ loc = [p \in Procs |-> NoLoc]
    /\ tx = [p \in Procs |-> NoTx]
    /\ calls = 0
    /\ now = LocalMidnight(0)
    /\ daily_bonus_users = <<>>
    /\ manual_reset_timestamps = <<>>
    /\ spots = {}

\* What the chat platform can deliver to the ring handlers.
Starters == {ADMIN_USER_ID, UserPool[1]}
Mentions == {<<>>} \cup {<<u>> : u \in Users}

RingBegin(p) ==
    \E ch \in RingChannels :
        \/ \E starter \in Starters, mentioned \in SUBSET Users :
               StartBegin(p, ch, starter, mentioned)
        \/ \E killer \in Users, victims \in Mentions, has_files \in BOOLEAN :
               ElimBegin(p, ch, killer, victims, has_files)
        \/ EndBegin(p, ch)

RingStep(p) ==
    \/ StartCount(p) \/ StartDeletePlayers(p) \/ StartDeleteEliminations(p)
    \/ StartInsert(p) \/ StartCommit(p) \/ StartAnnounce(p)
    \/ ElimSelectKiller(p) \/ ElimSelectVictim(p) \/ ElimUpdateVictim(p)
    \/ ElimUpdateKiller(p) \/ ElimInsertLog(p) \/ ElimCommit(p)
    \/ ElimRecount(p) \/ ElimPurge(p) \/ ElimPurgeCommit(p)
    \/ EndDeletePlayers(p) \/ EndDeleteEliminations(p) \/ EndCommit(p)
    \/ Finally(p)

AllIdle == \A p \in Procs : pc[p] = "idle"

\* The ring of one scope, one handler at a time.
Next ==
    \/ AllIdle /\ RingBegin(1) /\ UNCHANGED <<globals, calls>>
    \/ RingStep(1) /\ UNCHANGED <<globals, calls>>
    \/ /\ AllIdle
       /\ \E ch \in RingChannels :
             \/ \E player \in Users : TargetBegin(1, ch, player)
             \/ \E user \in Starters : EndRequestBegin(1, ch, user)
       /\ UNCHANGED <<globals, calls>>
    \/ (TargetSelect(1) \/ EndRequestCount(1)) /\ UNCHANGED <<globals, calls>>

Spec == Init /\ [][Next]_vars

\* The ring of one scope, the handlers of NumProcs invocations interleaved.
Delivered == calls < MaxCalls /\ calls' = calls + 1

NextRace ==
    \E p \in Procs :
        \/ RingBegin(p) /\ Delivered /\ UNCHANGED globals
        \/ RingStep(p) /\ UNCHANGED <<globals, calls>>

SpecRace == Init /\ [][NextRace]_vars

\* The ring of one scope: the game is started once, by the admin and with
\* every user, the first of the MaxCalls deliveries; then two eliminate
\* handlers at a time run interleaved, statement by statement.
ElimProcs == {1, 2}

ElimStep(p) ==
    \/ ElimSelectKiller(p) \/ ElimSelectVictim(p) \/ ElimUpdateVictim(p)
    \/ ElimUpdateKiller(p) \/ ElimInsertLog(p) \/ ElimCommit(p)
    \/ ElimRecount(p) \/ ElimPurge(p) \/ ElimPurgeCommit(p)

StartStep(p) ==
    \/ StartCount(p) \/ StartDeletePlayers(p) \/ StartDeleteEliminations(p)
    \/ StartInsert(p) \/ StartCommit(p) \/ StartAnnounce(p)

NextElimRace ==
    \/ /\ AllIdle /\ calls = 0
       /\ \E ch \in RingChannels : StartBegin(1, ch, ADMIN_USER_ID, Users)
       /\ Delivered /\ UNCHANGED globals
    \/ StartStep(1) /\ UNCHANGED <<globals, calls>>
    \/ \E p \in ElimProcs :
          \/ /\ calls > 0
             /\ \E ch \in RingChannels, killer \in Users, victims \in Mentions,
                    has_files \in BOOLEAN :
                     ElimBegin(p, ch, killer, victims, has_files)
             /\ Delivered /\ UNCHANGED globals
          \/ ElimStep(p) /\ UNCHANGED <<globals, calls>>
          \/ Finally(p) /\ UNCHANGED <<globals, calls>>

SpecElimRace == Init /\ [][NextElimRace]_vars

\* ------------------------------------------------- the ledger, specifications
NumMessages == 3

\* The messages the chat platform delivers to handle_spot_message; ts is the
\* message id, under which the platform may deliver a message again.
MessagePool ==
    <<[ts |-> 1, user |-> UserPool[1], channel |-> ChannelPool[1], files |-> TRUE,
       mentioned |-> {UserPool[2], UserPool[3]}],
      [ts |-> 2, user |-> UserPool[3], channel |-> ChannelPool[2], files |-> TRUE,
       mentioned |-> {UserPool[1]}],
      [ts |-> 3, user |-> UserPool[2], channel |-> ChannelPool[1], files |-> TRUE,
       mentioned |-> {UserPool[1], UserPool[2]}],
      [ts |-> 4, user |-> UserPool[1], channel |-> ChannelPool[2], files |-> TRUE,
       mentioned |-> {UserPool[2]}],
      [ts |-> 5, user |-> UserPool[3], channel |-> ChannelPool[1], files |-> FALSE,
       mentioned |-> {UserPool[1]}]>>
Messages == {MessagePool[i] : i \in 1..NumMessages}
LedgerChannels == {ChannelPool[1], ChannelPool[2]}

\* The instants the ledger specifications let the clock show after the first
\* one (2025-10-09 00:00 Pacific time): midnight Pacific time of the next day
\* and of the first day of the next season, and one hour after that.
LedgerInstants ==
    {LocalMidnight(1), LocalMidnight(SeasonLengthDays),
     LocalMidnight(SeasonLengthDays) + 60}

LedgerBegin(p) ==
    \/ \E m \in Messages : SpotBegin(p, m)
    \/ \E m \in Messages : DeletionBegin(p, m.ts)
    \/ \E ch \in LedgerChannels, by \in {"spotter", "spotted"} : BoardBegin(p, ch, by)
    \/ \E ch \in LedgerChannels : ResetBegin(p, ch)

LedgerStep(p) ==
    \/ SpotInsert(p) \/ SpotCommit(p)
    \/ DeletionDelete(p) \/ DeletionCommit(p)
    \/ BoardQuery(p)
    \/ ResetAnnounce(p) \/ ResetSet(p)
    \/ Finally(p) /\ UNCHANGED globals

\* The ledger, the reset floors and the seasonal boards as the clock advances,
\* one handler at a time.
NextLedger ==
    \/ AllIdle /\ LedgerBegin(1) /\ UNCHANGED calls
    \/ LedgerStep(1) /\ UNCHANGED calls
    \/ AllIdle /\ (\E t \in LedgerInstants : ClockAdvance(t)) /\ UNCHANGED calls

SpecLedger == Init /\ [][NextLedger]_vars

BonusBegin(p) ==
    \/ \E m \in Messages : SpotBegin(p, m)
    \/ \E m \in Messages : DeletionBegin(p, m.ts)
    \/ \E ch \in LedgerChannels : BonusShow(p, ch)
    \/ BonusClear(p)

BonusStep(p) ==
    \/ SpotInsert(p) \/ SpotCommit(p)
    \/ DeletionDelete(p) \/ DeletionCommit(p)
    \/ BonusChannels(p) \/ BonusAssign(p) \/ BonusSwap(p)
    \/ Finally(p) /\ UNCHANGED globals

\* The ledger and the daily bonus job, one handler or job at a time.
NextBonus ==
    \/ AllIdle /\ BonusBegin(1) /\ UNCHANGED calls
    \/ BonusStep(1) /\ UNCHANGED calls

SpecBonus == Init /\ [][NextBonus]_vars

\* The same, the handlers and the job of NumProcs invocations interleaved.
NextBonusRace ==
    \E p \in Procs :
        \/ BonusBegin(p) /\ Delivered
        \/ (BonusStep(p) \/ SpotDeadlock(p)) /\ UNCHANGED calls

SpecBonusRace == Init /\ [][NextBonusRace]_vars

\* The instants the day specification lets the clock show after the first:
\* one hour into the day, and midnight Pacific time of the next day.
DayInstants == {LocalMidnight(0) + 60, LocalMidnight(1)}

DayBegin(p) ==
    \/ \E m \in Messages : SpotBegin(p, m)
    \/ \E ch \in LedgerChannels : BonusShow(p, ch)
    \/ ScheduledBonus(p)
    \/ \E user \in Users : MentionTestBonus(p, user)

DayStep(p) ==
    \/ SpotInsert(p) \/ SpotCommit(p)
    \/ BonusChannels(p) \/ BonusAssign(p) \/ BonusSwap(p)
    \/ Finally(p) /\ UNCHANGED globals

\* The ledger, the cron job at midnight and the mentions of a day, one
\* handler or job at a time.
NextDay ==
    \/ AllIdle /\ DayBegin(1) /\ UNCHANGED calls
    \/ DayStep(1) /\ UNCHANGED calls
    \/ AllIdle /\ (\E t \in DayInstants : ClockAdvance(t)) /\ UNCHANGED calls

SpecDay == Init /\ [][NextDay]_vars

\* The season id over the minutes of ClockDays days.
ClockDays == 29

NextClock ==
    \/ AllIdle /\ now < LocalMidnight(ClockDays) /\ ClockAdvance(now + 1)
       /\ UNCHANGED calls
    \/ AllIdle /\ SeasonCall(1) /\ UNCHANGED calls
    \/ Finally(1) /\ UNCHANGED <<globals, calls>>

SpecClock == Init /\ [][NextClock]_vars

\* ------------------------------------------------------------- the ring
ChannelRows(ch) == {r \in assassin_players : r.channel_id = ch}
ActiveRows(ch) == {r \in ChannelRows(ch) : r.is_active}
PlayersOf(rows) == {r.player_id : r \in rows}

\* The player reached from x by following target k times within `rows`.
RECURSIVE Follow(_, _, _)
Follow(rows, x, k) ==
    IF k = 0 THEN x
    ELSE (CHOOSE r \in rows : r.player_id = Follow(rows, x, k - 1)).target_id

\* `rows` with their target edges are one directed cycle through every row.
SingleCycle(rows) ==
    LET n == Cardinality(rows)
    IN  /\ Cardinality(PlayersOf(rows)) = n
        /\ \A r \in rows : r.target_id \in PlayersOf(rows)
        /\ \A x \in PlayersOf(rows) :
              /\ Follow(rows, x, n) = x
              /\ \A k \in 1..(n - 1) : Follow(rows, x, k) # x

Finished(p, op, result) ==
    pc[p] = "finally" /\ loc[p].op = op /\ loc[p].result = result

\* C1: after a successful start with N >= 3 distinct players the scope holds
\* one row per player, following target N times from any player returns to
\* that player and not earlier, and no player is its own target.
C1_StartIsOneCycle ==
    \A p \in Procs :
        Finished(p, "start", "Started") =>
            LET rows == ChannelRows(loc[p].channel_id)
                n == Cardinality(loc[p].mentioned_users)
            IN  /\ n >= 3
                /\ Cardinality(rows) = n
                /\ PlayersOf(rows) = loc[p].mentioned_users
                /\ SingleCycle(rows)
                /\ \A r \in rows : r.target_id # r.player_id

C1_Witness ==
    \E p \in Procs :
        /\ Finished(p, "start", "Started")
        /\ Cardinality(ChannelRows(loc[p].channel_id)) >= 3

\* C2: with the handlers run one at a time, in every state the active players
\* of a scope and their target edges are one directed cycle through every
\* active player; no active player is its own target while 2 or more are
\* active.
C2_ActiveRingIsOneCycle ==
    \A ch \in RingChannels :
        LET rows == ActiveRows(ch)
        IN  /\ SingleCycle(rows)
            /\ Cardinality(rows) >= 2 =>
                   \A r \in rows : r.target_id # r.player_id

\* An elimination has been committed and the game goes on.
C2_Witness ==
    \E ch \in RingChannels :
        /\ Cardinality(ActiveRows(ch)) >= 2
        /\ ChannelRows(ch) # ActiveRows(ch)
        /\ \E r \in ActiveRows(ch) : r.kill_count > 0

\* Invocation p has carried out step 3 of the elimination and committed it.
Applied(p) ==
    /\ loc[p].op = "eliminate"
    /\ pc[p] \in {"elim_recount", "elim_purge", "elim_purge_commit"}
       \/ (pc[p] = "finally" /\ loc[p].result \in {"Win", "Continue"})

\* C3: of two concurrent eliminate calls for the same killer and the same
\* victim in one scope, at most one carries out the elimination.
C3_OneOfTwoApplies ==
    \A p, q \in Procs :
        (/\ p # q
         /\ Applied(p) /\ Applied(q)
         /\ loc[p].channel_id = loc[q].channel_id
         /\ loc[p].user_id = loc[q].user_id
         /\ loc[p].victim_id = loc[q].victim_id) => FALSE

\* The killer has an event for this victim in the log of a running game and is
\* still active: the call eliminate(killer, victim) has succeeded before.
Repeated(p) ==
    /\ \E e \in assassin_eliminations :
          /\ e.channel_id = loc[p].channel_id
          /\ e.killer_id = loc[p].user_id
          /\ e.victim_id = loc[p].victim_id
    /\ \E r \in ActiveRows(loc[p].channel_id) : r.player_id = loc[p].user_id

\* The step that ends invocation p ends it with `result` and writes nothing.
EndsWith(p, result) ==
    /\ pc'[p] = "finally"
    /\ loc'[p].result = result
    /\ tx'[p] = NoTx
    /\ UNCHANGED store

\* C4 as stated: a repeated eliminate fails with VictimAlreadyEliminated and
\* changes nothing.
C4_RepeatIsVictimAlreadyEliminated ==
    [][\A p \in Procs :
          (pc[p] = "elim_select_killer" /\ Repeated(p) /\ pc'[p] # pc[p])
              => EndsWith(p, "VictimAlreadyEliminated")]_vars

\* C4 as amended: a successful eliminate(killer, victim) made again while the
\* game is still active fails with WrongTarget (the killer's target is by then
\* the victim's former target) and changes no row and no event.
C4_RepeatIsWrongTarget ==
    [][\A p \in Procs :
          (pc[p] = "elim_select_killer" /\ Repeated(p) /\ pc'[p] # pc[p])
              => EndsWith(p, "WrongTarget")]_vars

C4_Witness ==
    \E p \in Procs : Finished(p, "eliminate", "WrongTarget") /\ Repeated(p)

\* C5: a finished elimination with one active player left has deleted every
\* row of the scope and reports that player as the winner; otherwise rows
\* stay, the number of active players is not 1, and the new target told to the
\* killer is the victim's former target, now the killer's target.
C5_RecountDecides ==
    \A p \in Procs :
        LET ch == loc[p].channel_id
        IN  /\ Finished(p, "eliminate", "Win") =>
                  /\ ChannelRows(ch) = {}
                  /\ loc[p].active_players = {loc[p].winner_id}
                  /\ \A e \in assassin_eliminations :
                        e.channel_id = ch => e.victim_id # loc[p].winner_id
            /\ Finished(p, "eliminate", "Continue") =>
                  /\ Cardinality(ActiveRows(ch)) # 1
                  /\ \E v \in ChannelRows(ch) :
                        /\ v.player_id = loc[p].victim_id
                        /\ ~v.is_active
                        /\ v.target_id = loc[p].new_target_id
                  /\ \E k \in ActiveRows(ch) :
                        /\ k.player_id = loc[p].user_id
                        /\ k.target_id = loc[p].new_target_id

\* The scenario of the spec: the winner has eliminated the two others.
C5_Witness ==
    \E p \in Procs :
        /\ Finished(p, "eliminate", "Win")
        /\ loc[p].winner_id = loc[p].user_id
        /\ Cardinality({e \in assassin_eliminations :
               e.channel_id = loc[p].channel_id
               /\ e.killer_id = loc[p].winner_id}) = 2
        /\ ChannelRows(loc[p].channel_id) = {}

\* ----------------------------------------------------------- the ledger
RowsOf(m) == {r \in spots : r.message_ts = m.ts}

\* Every target of message m other than its author has its record.
Recorded(m) ==
    \A u \in m.mentioned \ {m.user} :
        \E r \in spots : SpotKey(r) = <<m.ts, u>>

\* Invocation p of handle_spot_message is about to insert a record whose key
\* the ledger already holds.
Redelivered(p) ==
    /\ pc[p] = "spot_insert"
    /\ loc[p].todo # <<>>
    /\ loc[p].user_id # Head(loc[p].todo)
    /\ \E r \in spots : SpotKey(r) = <<loc[p].message_ts, Head(loc[p].todo)>>

\* C6: under every interleaving of deliveries the ledger holds at most one
\* record per (event key, scored-of); the records of a recorded event stay as
\* they are when the event is delivered again (only a retraction of the event
\* removes them); and the insert of a key the ledger already holds ends the
\* handler in its except branch, nothing written.
C6_OneRecordPerEventAndTarget ==
    /\ [](\A r1, r2 \in spots : SpotKey(r1) = SpotKey(r2) => r1 = r2)
    /\ [][\A m \in Messages :
            Recorded(m) =>
                \/ RowsOf(m)' = RowsOf(m)
                \/ \E p \in Procs : /\ pc[p] = "deletion_commit"
                                    /\ loc[p].message_ts = m.ts
                                    /\ pc'[p] = "finally"]_vars
    /\ [][\A p \in Procs :
            (Redelivered(p) /\ <<pc[p], loc[p]>> # <<pc'[p], loc'[p]>>) =>
                /\ pc'[p] = "finally"
                /\ loc'[p].result = "ErrorLogged"
                /\ spots' = spots]_vars

\* A second delivery has ended in the except branch, the records of the first
\* in place.
C6_Witness ==
    \E p \in Procs :
        /\ Finished(p, "spot", "ErrorLogged")
        /\ \E m \in Messages :
              /\ m.ts = loc[p].message_ts
              /\ Recorded(m)
              /\ Cardinality(RowsOf(m)) = Cardinality(m.mentioned \ {m.user})
              /\ RowsOf(m) # {}

\* The records a seasonal board of channel ch may count at floor t.
CountedSince(ch, season, t) ==
    {r \in spots : r.is_valid /\ r.channel_id = ch /\ r.season_id = season
                   /\ ~(r.created_at < t)}

\* C7: with a reset floor t set for a channel, a seasonal board of the channel
\* (by scorer, by scored-of) lists exactly the players with a record of the
\* current season created at or after t, each with the sum over those
\* records: no record created before t is counted.
C7_FloorCutsSeasonBoard ==
    \A p \in Procs :
        (/\ pc[p] = "finally"
         /\ loc[p].op \in {"spotter", "spotted"}
         /\ loc[p].channel_id \in DOMAIN manual_reset_timestamps) =>
            LET ch == loc[p].channel_id
                who == IF loc[p].op = "spotter" THEN "spotter_id" ELSE "spotted_id"
                pts == IF loc[p].op = "spotter" THEN "spotter_points"
                                                ELSE "caught_points"
                counted == CountedSince(ch, get_current_season_id(now),
                                        manual_reset_timestamps[ch])
                Mine(u) == {r \in counted : r[who] = u}
                listed == {loc[p].results[i] : i \in DOMAIN loc[p].results}
                players == {r[who] : r \in counted}
            IN  /\ \A e \in listed :
                      e[1] \in players /\ e[2] = SumOf(Mine(e[1]), pts)
                /\ Cardinality(players) <= BoardLimit =>
                      \A u \in players : \E e \in listed : e[1] = u
                /\ Len(loc[p].results) = Cardinality(listed)

\* A board was drawn with a record of the current season from before the
\* floor left out and a record made at the floor or later counted.
C7_Witness ==
    \E p \in Procs :
        /\ pc[p] = "finally"
        /\ loc[p].op \in {"spotter", "spotted"}
        /\ loc[p].channel_id \in DOMAIN manual_reset_timestamps
        /\ loc[p].results # <<>>
        /\ \E r \in spots :
              /\ r.channel_id = loc[p].channel_id
              /\ r.season_id = get_current_season_id(now)
              /\ r.created_at < manual_reset_timestamps[loc[p].channel_id]
        /\ \E r \in spots :
              /\ r.channel_id = loc[p].channel_id
              /\ r.season_id = get_current_season_id(now)
              /\ r.created_at = manual_reset_timestamps[loc[p].channel_id]

\* The start date of the window [A + kW, A + (k+1)W) that holds instant t, for
\* A = 2025-10-09 00:00 Pacific time and W = 14 days.
SeasonOfWindow(t) ==
    AddDays(SeasonStartFields,
            ((t - LocalMidnight(0)) \div (SeasonLengthDays * MinutesPerDay))
                * SeasonLengthDays)

\* C8: get_current_season_id at instant t returns the start date of the window
\* [A + kW, A + (k+1)W) that holds t: the same id throughout the window, the
\* id 14 days later from A + (k+1)W on.
C8_SeasonIdFollowsWindows ==
    \A p \in Procs :
        Finished(p, "season", "Season") =>
            loc[p].current_season = SeasonOfWindow(now)

\* C9: after a regeneration every channel with an assignment has exactly two
\* distinct targets, both participants of the channel; a channel with exactly
\* two participants has both assigned, one with fewer than two has none.
C9_BonusPairs ==
    \A p \in Procs :
        Finished(p, "bonus", "Assigned") =>
            \A ch \in LedgerChannels :
                LET assigned == ch \in DOMAIN daily_bonus_users
                    n == Cardinality(Participants(ch))
                IN  /\ assigned =>
                          /\ Cardinality(daily_bonus_users[ch]) = 2
                          /\ daily_bonus_users[ch] \subseteq Participants(ch)
                    /\ n = 2 => assigned /\ daily_bonus_users[ch] = Participants(ch)
                    /\ n < 2 => ~assigned
                    /\ n >= 2 => assigned

\* A regeneration with a channel of exactly two participants, a channel of
\* more, or a channel of none.
C9_Witness ==
    \E p \in Procs :
        /\ Finished(p, "bonus", "Assigned")
        /\ \E ch \in LedgerChannels :
              /\ Cardinality(Participants(ch)) = 2
              /\ ch \in DOMAIN daily_bonus_users
        /\ \E ch \in LedgerChannels :
              /\ Cardinality(Participants(ch)) # 2
              /\ (ch \in DOMAIN daily_bonus_users) = (Participants(ch) # {})

\* C10: the live mapping daily_bonus_users changes only by the swap that ends
\* daily_bonus_job; no reader meets a mapping the job has emptied or half built.
C10_OnlyTheSwapChangesTheMapping ==
    [][daily_bonus_users' # daily_bonus_users =>
          \E p \in Procs :
              /\ pc[p] = "bonus_assign"
              /\ pc'[p] = "finally"
              /\ daily_bonus_users' = loc[p].new_bonus_assignments]_vars

\* C11: once the scheduled regeneration has run, the assignment of every
\* channel stays as it is until the scheduled regeneration of the next day:
\* every step that changes daily_bonus_users is a step of the job the
\* scheduler started, none of a job a chat command started.
C11_OnlyTheScheduleRegenerates ==
    [][daily_bonus_users' # daily_bonus_users =>
          \E p \in Procs :
              /\ pc'[p] # pc[p]
              /\ loc'[p].op = "bonus"
              /\ loc'[p].user_id = ""]_vars

\* A start that the admin sent and that mentions fewer than three players has
\* reached its end.
FewPlayersStart(p) ==
    /\ pc[p] = "finally"
    /\ loc[p].op = "start"
    /\ loc[p].user_id = ADMIN_USER_ID
    /\ Cardinality(loc[p].mentioned_users) < 3

\* C12, as stated: every start with fewer than 3 distinct players fails with
\* InsufficientPlayers.
C12_FewPlayersIsInsufficientPlayers ==
    \A p \in Procs : FewPlayersStart(p) => loc[p].result = "InsufficientPlayers"

\* C12, amended: a start with fewer than 3 distinct players fails, with
\* AlreadyActive when the scope has an active player and with
\* InsufficientPlayers when it has none, and no step of it changes a row of
\* assassin_players or assassin_eliminations.
C12_FewPlayersFailsUnchanged ==
    /\ [](\A p \in Procs :
            FewPlayersStart(p) =>
                loc[p].result =
                    IF ActiveRows(loc[p].channel_id) # {} THEN "AlreadyActive"
                    ELSE "InsufficientPlayers")
    /\ [][\A p \in Procs :
            (/\ pc'[p] # "idle"
             /\ loc'[p].op = "start"
             /\ Cardinality(loc'[p].mentioned_users) < 3) =>
                /\ store' = store
                /\ tx' = tx]_vars

\* A start with two players failed with InsufficientPlayers, the log of an
\* earlier game in place.
C12_Witness ==
    \E p \in Procs :
        /\ FewPlayersStart(p)
        /\ Cardinality(loc[p].mentioned_users) = 2
        /\ loc[p].result = "InsufficientPlayers"
        /\ \E e \in assassin_eliminations : e.channel_id = loc[p].channel_id

\* C13: the start that finds at least one active player of the channel ends
\* with AlreadyActive, and neither the rows of the running game nor its log
\* change.
C13_StartOnRunningGameIsAlreadyActive ==
    [][\A p \in Procs :
          (/\ pc[p] = "start_count"
           /\ pc'[p] # pc[p]
           /\ ActiveRows(loc[p].channel_id) # {}) =>
              /\ pc'[p] = "finally"
              /\ loc'[p].result = "AlreadyActive"
              /\ store' = store
              /\ tx' = tx]_vars

\* A start with three players was refused on a running game that has a log.
C13_Witness ==
    \E p \in Procs :
        /\ Finished(p, "start", "AlreadyActive")
        /\ Cardinality(loc[p].mentioned_users) >= 3
        /\ ActiveRows(loc[p].channel_id) # {}
        /\ \E e \in assassin_eliminations : e.channel_id = loc[p].channel_id

\* The first error that applies to an eliminate call, by what the message
\* holds and what the handler read of the killer and of the victim; "none"
\* when no error applies.
FirstError(l) ==
    IF ~l.has_files THEN "MissingEvidence"
    ELSE IF l.victim_id = "" THEN "NoMention"
    ELSE IF l.killer_data = None THEN "NotAPlayer"
    ELSE IF ~l.killer_data[2] THEN "KillerEliminated"
    ELSE IF l.killer_data[1] # l.victim_id THEN "WrongTarget"
    ELSE IF l.victim_data = None \/ ~l.victim_data[2] THEN "VictimAlreadyEliminated"
    ELSE "none"

\* What the store holds of player u of channel ch: None without a row, else
\* target and active flag.
Held(ch, u) ==
    IF \E r \in assassin_players : r.channel_id = ch /\ r.player_id = u
    THEN LET r == CHOOSE x \in assassin_players :
                      x.channel_id = ch /\ x.player_id = u
         IN  <<r.target_id, r.is_active>>
    ELSE None

\* C14: an eliminate call ends with the first error that applies, in the
\* order MissingEvidence, (no player mentioned,) NotAPlayer, KillerEliminated,
\* WrongTarget, VictimAlreadyEliminated, and only without any with success;
\* the handler reads the killer and the victim as the store holds them; a
\* rejected call has written nothing and its last step changes no row.
C14_FirstErrorWins ==
    /\ [](\A p \in Procs :
            (pc[p] = "finally" /\ loc[p].op = "eliminate") =>
                IF FirstError(loc[p]) = "none"
                THEN loc[p].result \in {"Win", "Continue"}
                ELSE loc[p].result = FirstError(loc[p]) /\ tx[p] = NoTx)
    /\ [][\A p \in Procs :
            /\ (pc[p] = "elim_select_killer" /\ pc'[p] # pc[p]) =>
                  loc'[p].killer_data = Held(loc[p].channel_id, loc[p].user_id)
            /\ (pc[p] = "elim_select_victim" /\ pc'[p] # pc[p]) =>
                  loc'[p].victim_data = Held(loc[p].channel_id, loc[p].victim_id)
            /\ (/\ pc[p] \in {"idle", "elim_select_killer", "elim_select_victim"}
                /\ pc'[p] = "finally"
                /\ loc'[p].op = "eliminate") =>
                  store' = store /\ tx' = tx]_vars

\* A claim was rejected with the last of the errors: the killer was active and
\* the victim its target when the killer's row was read, and the victim no
\* longer active when its own row was read.
C14_Witness ==
    \E p \in Procs :
        /\ Finished(p, "eliminate", "VictimAlreadyEliminated")
        /\ loc[p].killer_data = <<loc[p].victim_id, TRUE>>
        /\ loc[p].victim_data # None
        /\ \E e \in assassin_eliminations : e.victim_id = loc[p].victim_id

\* C15: the commit of a successful eliminate changes exactly this: the
\* victim's row becomes inactive; the killer's row takes the victim's former
\* target and one more kill; one row (killer, victim) joins the log.  Every
\* other row, the victim's target and kill_count and the killer's active flag
\* are as before, and no row appears or disappears.
C15_EliminateChangesExactlyThis ==
    [][\A p \in Procs :
          (pc[p] = "elim_commit" /\ pc'[p] # pc[p]) =>
              LET ch == loc[p].channel_id
                  killer == loc[p].user_id
                  victim == loc[p].victim_id
                  former == (CHOOSE r \in assassin_players :
                                r.channel_id = ch /\ r.player_id = victim).target_id
                  After(r) ==
                      IF r.channel_id = ch /\ r.player_id = victim
                      THEN [r EXCEPT !.is_active = FALSE]
                      ELSE IF r.channel_id = ch /\ r.player_id = killer
                      THEN [r EXCEPT !.target_id = former,
                                     !.kill_count = r.kill_count + 1]
                      ELSE r
              IN  /\ assassin_players' = {After(r) : r \in assassin_players}
                  /\ Cardinality(assassin_players') = Cardinality(assassin_players)
                  /\ \E e \in assassin_eliminations' \ assassin_eliminations :
                        /\ e.channel_id = ch
                        /\ e.killer_id = killer
                        /\ e.victim_id = victim
                        /\ assassin_eliminations' = assassin_eliminations \cup {e}
                  /\ spots' = spots]_vars

\* An elimination went through with a third player in the ring: the killer
\* has one kill and the victim's former target, the victim is inactive with
\* its target kept, the third player is as the start made it.
C15_Witness ==
    \E p \in Procs :
        /\ Finished(p, "eliminate", "Continue")
        /\ \E k, v, o \in ChannelRows(loc[p].channel_id) :
              /\ k.player_id = loc[p].user_id
              /\ k.kill_count = 1 /\ k.is_active
              /\ k.target_id = loc[p].new_target_id
              /\ v.player_id = loc[p].victim_id
              /\ ~v.is_active /\ v.kill_count = 0
              /\ v.target_id = loc[p].new_target_id
              /\ o.player_id \notin {k.player_id, v.player_id}
              /\ o.is_active /\ o.kill_count = 0

\* C16: whatever the interleaving of eliminate calls of different killers,
\* the committed rows are those of some serial order of the calls: the target
\* of every active player of a scope is an active player of the scope.
C16_NoActivePlayerTargetsAnInactiveOne ==
    \A ch \in RingChannels :
        \A r \in ActiveRows(ch) : r.target_id \in PlayersOf(ActiveRows(ch))

\* C17: the target command of a player without a row in the channel ends
\* with NotAPlayer, of a player whose row is inactive with AlreadyEliminated,
\* and otherwise answers the target of the row; no step of it changes any
\* state.
C17_TargetCommandAnswers ==
    /\ [](\A p \in Procs :
            (pc[p] = "finally" /\ loc[p].op = "target") =>
                LET held == Held(loc[p].channel_id, loc[p].user_id)
                IN  IF held = None THEN loc[p].result = "NotAPlayer"
                    ELSE IF ~held[2] THEN loc[p].result = "AlreadyEliminated"
                    ELSE /\ loc[p].result = "Target"
                         /\ loc[p].target_id = held[1])
    /\ [][\A p \in Procs :
            (loc'[p].op = "target" /\ pc'[p] # "idle") =>
                /\ store' = store
                /\ tx' = tx
                /\ globals' = globals]_vars

\* An eliminated player asked for its target.
C17_Witness ==
    \E p \in Procs :
        /\ Finished(p, "target", "AlreadyEliminated")
        /\ \E r \in ChannelRows(loc[p].channel_id) :
              r.player_id = loc[p].user_id /\ ~r.is_active
        /\ \E r \in ActiveRows(loc[p].channel_id) : r.kill_count > 0

\* C18: an abort of a scope, asked for by the admin, succeeds in every state,
\* also without an active game: when it is over (the request answered "no
\* active game", or the confirmed purge committed) the scope has no row in
\* assassin_players and none in assassin_eliminations.
C18_AbortLeavesNoRows ==
    \A p \in Procs :
        (\/ Finished(p, "end_request", "NoActiveGame")
         \/ Finished(p, "end", "Ended")) =>
            /\ ChannelRows(loc[p].channel_id) = {}
            /\ \A e \in assassin_eliminations : e.channel_id # loc[p].channel_id

\* What the claims read of a record: scorer, scored-of, scope, event key,
\* points of the scored-of, points of the scorer, season.
Scored(r) ==
    <<r.spotter_id, r.spotted_id, r.channel_id, r.message_ts, r.caught_points,
      r.spotter_points, r.season_id>>

\* C19: the commit of a scoring event adds no record for a target equal to
\* the scorer and, for every other mentioned target, one record with 1 point
\* for the scored-of, 2 points for the scorer when the target is in the bonus
\* assignment of the channel and 1 otherwise, and the season id of the
\* 14-day window the present instant lies in.
C19_OneRecordPerTarget ==
    [][\A p \in Procs :
          (/\ pc[p] = "spot_insert"
           /\ pc'[p] = "finally"
           /\ loc'[p].result = "Recorded") =>
              LET ch == loc[p].channel_id
                  targets == loc[p].mentioned_users \ {loc[p].user_id}
                  bonus == IF ch \in DOMAIN daily_bonus_users
                           THEN daily_bonus_users[ch] ELSE {}
              IN  /\ {Scored(r) : r \in spots' \ spots} =
                        {<<loc[p].user_id, u, ch, loc[p].message_ts, 1,
                           IF u \in bonus THEN 2 ELSE 1,
                           SeasonOfWindow(now)>> : u \in targets}
                  /\ Cardinality(spots' \ spots) = Cardinality(targets)
                  /\ spots \subseteq spots']_vars

\* C20: the commit of a retraction removes every record of the event key and
\* no other record; a retraction of a key without records removes nothing and
\* ends like any other, so that a second retraction of a key leaves the
\* ledger as the first left it.
C20_RetractionRemovesTheEvent ==
    /\ [][\A p \in Procs :
            (pc[p] = "deletion_commit" /\ pc'[p] # pc[p]) =>
                /\ spots' = {r \in spots : r.message_ts # loc[p].message_ts}
                /\ pc'[p] = "finally"
                /\ loc'[p].result = "Deleted"
                /\ loc'[p].successful_spots =
                      Cardinality({r \in spots : r.message_ts = loc[p].message_ts})]_vars
    /\ [](\A p \in Procs :
            (pc[p] = "finally" /\ loc[p].op = "deletion") =>
                \A r \in spots : r.message_ts # loc[p].message_ts)

\* A retraction removed the two records of an event and left the record of
\* another event in the ledger.
C20_Witness ==
    \E p \in Procs :
        /\ Finished(p, "deletion", "Deleted")
        /\ loc[p].successful_spots = 2
        /\ spots # {}

\* ------------------------------------------------------- end_of_season_job
\* The zones the host's clock may be set to, as minutes west of UTC: UTC and
\* Pacific daylight time.
SystemZones == {0, LosAngelesPDT}

\* datetime.strptime(id, '%Y-%m-%d') is naive; .astimezone(Los Angeles) reads
\* it as midnight in the host's zone `zone` and shows the Pacific wall clock;
\* - timedelta(days=14) moves the wall clock; strftime keeps the date.
PreviousSeasonId(current_season_start, zone) ==
    AddDays(AddDays(current_season_start,
                    (zone - LosAngelesPDT) \div MinutesPerDay),
            -SeasonLengthDays)

\* scheduler.add_job(end_of_season_job, 'cron', day_of_week='thu', hour=0,
\* minute=0, week='*/2', start_date='2025-10-09 00:00:00'), timezone
\* America/Los_Angeles: every second Thursday at 00:00 Pacific time.
RolloverDue ==
    (now - LocalMidnight(0)) % (SeasonLengthDays * MinutesPerDay) = 0

ScheduledRollover(p) ==
    /\ pc[p] = "idle"
    /\ RolloverDue
    /\ \E zone \in SystemZones :
          loc' = [loc EXCEPT ![p] =
              [NoLoc EXCEPT !.op = "rollover",
                            !.current_season = get_current_season_id(now),
                            !.previous_season_id =
                                PreviousSeasonId(get_current_season_id(now), zone)]]
    /\ Goto(p, "rollover_channels")
    /\ UNCHANGED <<globals, store, tx>>

\* SELECT DISTINCT channel_id FROM spots WHERE season_id = %s
RolloverChannels(p) ==
    /\ pc[p] = "rollover_channels"
    /\ \E channels \in Shuffles({r.channel_id : r \in
                          {x \in spots : x.season_id = loc[p].previous_season_id}}) :
          /\ loc' = [loc EXCEPT ![p].todo = channels]
          /\ Goto(p, IF channels = <<>> THEN "rollover_clear" ELSE "rollover_announce")
    /\ UNCHANGED <<globals, store, tx>>

\* psycopg2.connect or the SELECT raises: the except branch of the job, no
\* channel is looped over.
RolloverChannelsFail(p) ==
    /\ pc[p] = "rollover_channels"
    /\ loc' = [loc EXCEPT ![p].error = "store"]
    /\ Goto(p, "rollover_clear")
    /\ UNCHANGED <<globals, store, tx>>

\* One turn of `for channel_id in channels`: announce_season_winner returned
\* with `outcome`; its except branch swallows every error, the loop goes on.
RolloverTurn(p, outcome, winner_result) ==
    /\ loc' = [loc EXCEPT ![p].todo = Tail(@),
                          ![p].results = Append(@,
                              <<Head(loc[p].todo), outcome, winner_result>>)]
    /\ Goto(p, IF Tail(loc[p].todo) = <<>> THEN "rollover_clear"
                                           ELSE "rollover_announce")
    /\ UNCHANGED <<globals, store, tx>>

\* announce_season_winner: the winner is selected and chat_postMessage sent.
RolloverAnnounce(p) ==
    /\ pc[p] = "rollover_announce"
    /\ \E winner_result \in SeasonWinner(Head(loc[p].todo),
                                        loc[p].previous_season_id) :
          RolloverTurn(p, "Announced", winner_result)

\* announce_season_winner: psycopg2.connect or the winner query raises.
RolloverAnnounceStoreFails(p) ==
    /\ pc[p] = "rollover_announce"
    /\ RolloverTurn(p, "StoreFailed", None)

\* announce_season_winner: chat_postMessage (or get_user_name) raises.
RolloverAnnounceNotifierFails(p) ==
    /\ pc[p] = "rollover_announce"
    /\ \E winner_result \in SeasonWinner(Head(loc[p].todo),
                                        loc[p].previous_season_id) :
          RolloverTurn(p, "NotifierFailed", winner_result)

\* A plausible slip: the floors are cleared inside the try block, which an
\* error of the channel query leaves early.
RolloverClear_InsideTry(p) ==
    /\ pc[p] = "rollover_clear"
    /\ manual_reset_timestamps' =
           IF loc[p].error = "" THEN EmptyDict ELSE manual_reset_timestamps
    /\ Leave(p, loc[p], "RolledOver")
    /\ UNCHANGED <<now, daily_bonus_users, store, tx>>

\* manual_reset_timestamps.clear(), after try / except / finally.
RolloverClear(p) ==
    /\ pc[p] = "rollover_clear"
    /\ manual_reset_timestamps' = EmptyDict
    /\ Leave(p, loc[p], "RolledOver")
    /\ UNCHANGED <<now, daily_bonus_users, store, tx>>

\* The instants the rollover specification lets the clock show after the
\* first: one hour into the first day, and 00:00 Pacific time of the first day
\* of the next window.
RolloverInstants == {LocalMidnight(0) + 60, LocalMidnight(SeasonLengthDays)}

RolloverBegin(p) ==
    \/ \E m \in Messages : SpotBegin(p, m)
    \/ \E ch \in LedgerChannels : ResetBegin(p, ch)
    \/ ScheduledRollover(p)

RolloverStep(p) ==
    \/ SpotInsert(p) \/ SpotCommit(p)
    \/ ResetAnnounce(p) \/ ResetSet(p)
    \/ RolloverChannels(p) \/ RolloverChannelsFail(p)
    \/ RolloverAnnounce(p) \/ RolloverAnnounceStoreFails(p)
    \/ RolloverAnnounceNotifierFails(p)
    \/ RolloverClear(p)
    \/ Finally(p) /\ UNCHANGED globals

\* The ledger, the manual resets and the rollover job as the clock advances,
\* one handler or job at a time; the store and the notifier may fail the job.
NextRollover ==
    \/ AllIdle /\ RolloverBegin(1) /\ UNCHANGED calls
    \/ RolloverStep(1) /\ UNCHANGED calls
    \/ AllIdle /\ (\E t \in RolloverInstants : ClockAdvance(t)) /\ UNCHANGED calls

SpecRollover == Init /\ [][NextRollover]_vars

\* The channels whose announcement the job of p has attempted, and those
\* where the attempt failed.
Attempted(p) == {loc[p].results[i][1] : i \in DOMAIN loc[p].results}
FailedTurns(p) ==
    {i \in DOMAIN loc[p].results : loc[p].results[i][2] # "Announced"}

\* C21: when the rollover job has run, no scope has a manual reset floor left,
\* whether the channel query and the announcements succeeded or failed.
C21_RolloverClearsEveryFloor ==
    \A p \in Procs :
        Finished(p, "rollover", "RolledOver") =>
            manual_reset_timestamps = EmptyDict

\* A rollover job has run in which the announcement of a scope failed, and no
\* floor is left.
C21_Witness ==
    \E p \in Procs :
        /\ Finished(p, "rollover", "RolledOver")
        /\ FailedTurns(p) # {}
        /\ manual_reset_timestamps = EmptyDict

\* C22: a rollover job that runs at 00:00 Pacific time on a window boundary
\* announces the season whose id is the start date of the new window minus
\* 14 days.
C22_RolloverAnnouncesTheClosedWindow ==
    \A p \in Procs :
        loc[p].op = "rollover" /\ RolloverDue =>
            loc[p].previous_season_id =
                AddDays(SeasonOfWindow(now), -SeasonLengthDays)

\* C25: when the rollover job has read its channels and run, with or without
\* failures of the single announcements, every scope that has a record of the
\* season that closed (the start date of the new window minus 14 days) has had
\* its announcement attempted.
C25_EveryScopeOfTheClosedSeasonIsAttempted ==
    \A p \in Procs :
        Finished(p, "rollover", "RolledOver") /\ loc[p].error = "" =>
            \A r \in spots :
                r.season_id = AddDays(SeasonOfWindow(now), -SeasonLengthDays)
                    => r.channel_id \in Attempted(p)

\* The order of player ids: U1 before U2 before U3 ...
UserRank(u) == CHOOSE i \in DOMAIN UserPool : UserPool[i] = u

\* C23: a seasonal board lists, for its scope and season, the players with a
\* valid record, each with the sum of its points, cut to the limit, in the
\* order of falling totals and, among equal totals, of rising player id: one
\* sequence for a given ledger.
C23_BoardInOrderTiesByPlayerId ==
    \A p \in Procs :
        (pc[p] = "finally" /\ loc[p].op \in {"spotter", "spotted"}) =>
            LET ch == loc[p].channel_id
                who == IF loc[p].op = "spotter" THEN "spotter_id" ELSE "spotted_id"
                pts == IF loc[p].op = "spotter" THEN "spotter_points"
                                                ELSE "caught_points"
                counted == CountedSince(ch, loc[p].current_season,
                               IF ch \in DOMAIN manual_reset_timestamps
                               THEN manual_reset_timestamps[ch]
                               ELSE LocalMidnight(0))
                Total(u) == SumOf({r \in counted : r[who] = u}, pts)
                Before(u, v) ==
                    \/ Total(u) > Total(v)
                    \/ Total(u) = Total(v) /\ UserRank(u) < UserRank(v)
                players == {r[who] : r \in counted}
                res == loc[p].results
                listed == {res[i][1] : i \in DOMAIN res}
            IN  /\ listed \subseteq players
                /\ \A i \in DOMAIN res : res[i][2] = Total(res[i][1])
                /\ Len(res) = IF Cardinality(players) < BoardLimit
                              THEN Cardinality(players) ELSE BoardLimit
                /\ \A i \in 1..(Len(res) - 1) : Before(res[i][1], res[i + 1][1])
                /\ \A u \in players \ listed : \A v \in listed : Before(v, u)

\* ------------------------------------------- the ring, store and notifier fail
\* The statements of start and eliminate up to and including the first commit.
StartStoreSteps ==
    {"start_count", "start_delete_players", "start_delete_eliminations",
     "start_insert", "start_commit"}
ElimStoreSteps ==
    {"elim_select_killer", "elim_select_victim", "elim_update_victim",
     "elim_update_killer", "elim_insert_log", "elim_commit"}
\* The statements of eliminate after its first commit.
ElimLateStoreSteps == {"elim_recount", "elim_purge", "elim_purge_commit"}

\* except (Exception, psycopg2.DatabaseError) as error: the handler says
\* "Sorry, I ran into an error ..." and goes on to its finally block.
Except(p, l, error) ==
    Leave(p, [l EXCEPT !.error = error], "ErrorReported")

\* psycopg2.connect, cur.execute or conn.commit raises at the statement the
\* invocation is at; the statement has no effect.
StoreFails(p) ==
    /\ pc[p] \in StartStoreSteps \cup ElimStoreSteps \cup ElimLateStoreSteps
    /\ Except(p, loc[p], "store")
    /\ UNCHANGED <<store, tx>>

\* 5. say("A new game of Assassin has begun! ...") raises, after the commit.
StartAnnounceFails(p) ==
    /\ pc[p] = "start_announce"
    /\ Except(p, loc[p], "notifier")
    /\ UNCHANGED <<store, tx>>

\* 4. the recount is made, then say(...) of the elimination (with the winner,
\* when one player is left) or chat_postEphemeral raises: the statements after
\* it, the DELETE and its commit among them, are not reached.
ElimAnnounceFails(p) ==
    /\ pc[p] = "elim_recount"
    /\ LET active_players ==
               {r.player_id : r \in {x \in VisibleP(p) :
                   x.channel_id = loc[p].channel_id /\ x.is_active}}
       IN  Except(p, [loc[p] EXCEPT !.active_players = active_players],
                  "notifier")
    /\ UNCHANGED <<store, tx>>

FaultStep(p) ==
    \/ StoreFails(p)
    \/ StartAnnounceFails(p)
    \/ ElimAnnounceFails(p)

\* The ring of one scope, one handler at a time; the store and the notifier
\* may fail a handler at any of its statements.
NextFaults ==
    \/ AllIdle /\ RingBegin(1) /\ UNCHANGED <<globals, calls>>
    \/ RingStep(1) /\ UNCHANGED <<globals, calls>>
    \/ FaultStep(1) /\ UNCHANGED <<globals, calls>>

SpecFaults == Init /\ [][NextFaults]_vars

\* C24: a failing notification does not keep a transition from happening and
\* does not misreport it: when the recount of an eliminate finds one active
\* player and the store has not failed, the scope's rows are purged; a start
\* that has committed its rows ends reported as started.
C24_NotifierFailureChangesNothing ==
    \A p \in Procs :
        pc[p] = "finally" /\ loc[p].error # "store" =>
            /\ (loc[p].op = "eliminate"
                    /\ Cardinality(loc[p].active_players) = 1)
                   => ChannelRows(loc[p].channel_id) = {}
            /\ (loc[p].op = "start" /\ loc[p].players # <<>>)
                   => loc[p].result = "Started"

\* C30: a store failure of eliminate or start before the commit leaves nothing
\* behind.  No step of such an invocation up to its commit changes the
\* committed tables, except the commit when it succeeds; after the failure the
\* finally block changes nothing either, so the tables are as they were when
\* the invocation began.
C30_FailureBeforeCommitPersistsNothing ==
    [][\A p \in Procs :
          (\/ /\ loc[p].op \in {"start", "eliminate"}
              /\ pc[p] \in StartStoreSteps \cup ElimStoreSteps
              /\ ~(pc[p] \in {"start_commit", "elim_commit"}
                      /\ loc'[p].error = "")
           \/ /\ loc[p].op \in {"start", "eliminate"}
              /\ pc[p] = "finally"
              /\ loc[p].error = "store")
              => UNCHANGED store]_vars

\* The log insert of an eliminate failed after the updates of the victim and
\* of the killer: the updates are pending, the committed rows are all active
\* and the log is empty.
C30_Witness ==
    \E p \in Procs :
        /\ pc[p] = "finally"
        /\ loc[p].op = "eliminate"
        /\ loc[p].error = "store"
        /\ Cardinality(tx[p].updP) = 2
        /\ tx[p].insE = <<>>
        /\ ChannelRows(loc[p].channel_id) # {}
        /\ \A r \in ChannelRows(loc[p].channel_id) : r.is_active /\ r.kill_count = 0
        /\ assassin_eliminations = {}

\* C26: at every moment the committed rows of assassin_players hold at most
\* one row per scope and player, also while start requests of one scope run
\* interleaved.
C26_OneRowPerScopeAndPlayer ==
    \A r, q \in assassin_players :
        r.channel_id = q.channel_id /\ r.player_id = q.player_id => r = q

\* C27: right after a successful start the scope holds exactly one row per
\* given player, each active with kill_count 0, and the scope's log of
\* eliminations is empty.
C27_StartLeavesAFreshGame ==
    \A p \in Procs :
        Finished(p, "start", "Started") =>
            LET rows == ChannelRows(loc[p].channel_id)
            IN  /\ PlayersOf(rows) = loc[p].mentioned_users
                /\ Cardinality(rows) = Cardinality(loc[p].mentioned_users)
                /\ \A r \in rows : r.is_active /\ r.kill_count = 0
                /\ \A e \in assassin_eliminations :
                      e.channel_id # loc[p].channel_id

\* A start has succeeded: the rows of its players are committed.
C27_Witness ==
    \E p \in Procs :
        /\ Finished(p, "start", "Started")
        /\ Cardinality(loc[p].mentioned_users) >= 3
        /\ PlayersOf(ChannelRows(loc[p].channel_id)) = loc[p].mentioned_users

\* The committed rows of scope ch change in this step.
RowsAppear(ch) == Ids(ChannelRows(ch)') \ Ids(ChannelRows(ch)) # {}
RowsDisappear(ch) == Ids(ChannelRows(ch)) \ Ids(ChannelRows(ch)') # {}

\* C28: the game of a scope goes from no game to active by a start, from
\* active to ended by a win and from active to no game by an abort.  Rows
\* appear only when a start commits in a scope without rows; rows disappear
\* only all at once, when the eliminate that left one active player commits
\* its purge or when an abort commits; a row that stays keeps its player, and
\* its active flag never goes from false to true.
C28_GameLifecycle ==
    [][\A ch \in RingChannels :
          /\ RowsAppear(ch) =>
                /\ ChannelRows(ch) = {}
                /\ \E p \in Procs :
                      /\ loc[p].op = "start" /\ loc[p].channel_id = ch
                      /\ pc[p] = "start_commit" /\ pc'[p] = "start_announce"
          /\ RowsDisappear(ch) =>
                /\ ChannelRows(ch)' = {}
                /\ \E p \in Procs :
                      /\ loc[p].channel_id = ch
                      /\ \/ /\ loc[p].op = "eliminate"
                            /\ pc[p] = "elim_purge_commit"
                            /\ Cardinality(ActiveRows(ch)) = 1
                         \/ loc[p].op = "end" /\ pc[p] = "end_commit"
          /\ \A r \in ChannelRows(ch) : \A q \in ChannelRows(ch)' :
                r.id = q.id =>
                    /\ q.player_id = r.player_id
                    /\ q.is_active => r.is_active]_vars

\* A game was started, eliminations have made players inactive, and the
\* eliminate that left one active player has purged the rows of the scope.
C28_Witness ==
    \E p \in Procs :
        /\ Finished(p, "eliminate", "Win")
        /\ ChannelRows(loc[p].channel_id) = {}
        /\ \E e \in assassin_eliminations : e.channel_id = loc[p].channel_id

\* The committed log of eliminations of scope ch.
ChannelEvents(ch) == {e \in assassin_eliminations : e.channel_id = ch}

\* In scope ch the log has one event per elimination made.
OneEventPerElimination(ch) ==
    LET inactive == ChannelRows(ch) \ ActiveRows(ch)
    IN  /\ Cardinality(ChannelEvents(ch)) = Cardinality(inactive)
        /\ Cardinality(ChannelEvents(ch)) = SumOf(ChannelRows(ch), "kill_count")
        /\ \A r \in inactive :
              Cardinality({e \in ChannelEvents(ch) :
                              e.victim_id = r.player_id}) = 1

\* C29: with the handlers run one at a time, while a scope has active players
\* its events are as many as its inactive rows and as the sum of kill_count
\* over its rows, every inactive player is the victim of exactly one event,
\* and an event stays as it is until a start or an abort commits.
C29_OneEventPerElimination ==
    [][\A ch \in RingChannels :
          /\ (ActiveRows(ch) # {} => OneEventPerElimination(ch))'
          /\ ChannelEvents(ch) \subseteq ChannelEvents(ch)'
                \/ \E p \in Procs :
                      /\ loc[p].channel_id = ch
                      /\ \/ loc[p].op = "start" /\ pc[p] = "start_commit"
                         \/ loc[p].op = "end" /\ pc[p] = "end_commit"]_vars

\* An eliminate has succeeded and the game goes on: one event, one inactive
\* row, one kill counted.
C29_Witness ==
    \E p \in Procs :
        /\ Finished(p, "eliminate", "Continue")
        /\ ActiveRows(loc[p].channel_id) # {}
        /\ Cardinality(ChannelEvents(loc[p].channel_id)) = 1
        /\ \E e \in ChannelEvents(loc[p].channel_id) :
              e.killer_id = loc[p].user_id /\ e.victim_id = loc[p].victim_id

\* ------------------------- handle_alltime_spotboard / _caughtboard_command
\* A plausible slip: the all-time query keeps the filters of the seasonal one.
AllTimeFilter_Seasonal(ch) == SeasonFilter(ch, get_current_season_id(now))

\* WHERE is_valid = TRUE AND channel_id = %s
AllTimeFilter(ch) == {r \in spots : r.is_valid /\ r.channel_id = ch}

\* by = "alltime_spotter" / "alltime_spotted".
AllTimeBegin(p, ch, by) ==
    /\ pc[p] = "idle"
    /\ Goto(p, "alltime_query")
    /\ loc' = [loc EXCEPT ![p] = [NoLoc EXCEPT !.op = by, !.channel_id = ch]]
    /\ UNCHANGED <<globals, store, tx>>

AllTimeQuery(p) ==
    /\ pc[p] = "alltime_query"
    /\ LET rows == AllTimeFilter(loc[p].channel_id)
           groups == IF loc[p].op = "alltime_spotter"
                     THEN GroupSum(rows, "spotter_id", "spotter_points")
                     ELSE GroupSum(rows, "spotted_id", "caught_points")
       IN  \E results \in OrderedLimited(groups) :
               Leave(p, [loc[p] EXCEPT !.results = results],
                     IF results = <<>> THEN "Empty" ELSE "Board")
    /\ UNCHANGED <<globals, store, tx>>

AllTimeBoardBegin(p) ==
    \/ \E m \in Messages : SpotBegin(p, m)
    \/ \E ch \in LedgerChannels : ResetBegin(p, ch)
    \/ \E ch \in LedgerChannels, by \in {"alltime_spotter", "alltime_spotted"} :
          AllTimeBegin(p, ch, by)

AllTimeBoardStep(p) ==
    \/ SpotInsert(p) \/ SpotCommit(p)
    \/ ResetAnnounce(p) \/ ResetSet(p)
    \/ AllTimeQuery(p)
    \/ Finally(p) /\ UNCHANGED globals

\* The ledger, the manual resets and the all-time boards as the clock
\* advances over a season boundary, one handler at a time.
NextAllTime ==
    \/ AllIdle /\ AllTimeBoardBegin(1) /\ UNCHANGED calls
    \/ AllTimeBoardStep(1) /\ UNCHANGED calls
    \/ AllIdle /\ (\E t \in LedgerInstants : ClockAdvance(t)) /\ UNCHANGED calls

SpecAllTime == Init /\ [][NextAllTime]_vars

\* C31: an all-time board of a scope lists exactly the players with a valid
\* record of the scope, each with the sum over all of them, whatever their
\* season id and whatever the scope's reset floor: a reset or a season
\* boundary does not change it.
C31_AllTimeBoardIgnoresSeasonAndFloor ==
    \A p \in Procs :
        (pc[p] = "finally"
            /\ loc[p].op \in {"alltime_spotter", "alltime_spotted"}) =>
            LET ch == loc[p].channel_id
                who == IF loc[p].op = "alltime_spotter" THEN "spotter_id"
                                                        ELSE "spotted_id"
                pts == IF loc[p].op = "alltime_spotter" THEN "spotter_points"
                                                        ELSE "caught_points"
                all == {r \in spots : r.channel_id = ch /\ r.is_valid}
                players == {r[who] : r \in all}
                res == loc[p].results
            IN  /\ {res[i][1] : i \in DOMAIN res} \subseteq players
                /\ \A i \in DOMAIN res :
                      res[i][2] = SumOf({r \in all : r[who] = res[i][1]}, pts)
                /\ Len(res) = IF Cardinality(players) < BoardLimit
                              THEN Cardinality(players) ELSE BoardLimit
                /\ \A i, j \in DOMAIN res : res[i][1] = res[j][1] => i = j

\* An all-time board was drawn in a scope with a reset floor, and it counts a
\* record from before the floor and records of two seasons.
C31_Witness ==
    \E p \in Procs :
        /\ Finished(p, loc[p].op, "Board")
        /\ loc[p].op \in {"alltime_spotter", "alltime_spotted"}
        /\ loc[p].channel_id \in DOMAIN manual_reset_timestamps
        /\ \E r, q \in spots :
              /\ r.channel_id = loc[p].channel_id
              /\ q.channel_id = loc[p].channel_id
              /\ r.created_at < manual_reset_timestamps[loc[p].channel_id]
              /\ r.season_id # q.season_id
              /\ \E i \in DOMAIN loc[p].results :
                    loc[p].results[i][1] =
                        r[IF loc[p].op = "alltime_spotter" THEN "spotter_id"
                                                           ELSE "spotted_id"]

\* C32: a confirmed manual reset of a scope leaves the scope's floor at the
\* present instant, whatever floor the scope had; no step of it changes the
\* floor of another scope, a record of the ledger, or the clock and with it
\* the season id.
C32_ResetSetsOnlyItsFloor ==
    [][\A p \in Procs :
          loc'[p].op = "reset" =>
              LET ch == loc'[p].channel_id
              IN  /\ spots' = spots
                  /\ now' = now
                  /\ get_current_season_id(now') = loc'[p].current_season
                  /\ \A other \in LedgerChannels \ {ch} :
                        /\ other \in DOMAIN manual_reset_timestamps'
                               <=> other \in DOMAIN manual_reset_timestamps
                        /\ other \in DOMAIN manual_reset_timestamps =>
                               manual_reset_timestamps'[other] =
                                   manual_reset_timestamps[other]
                  /\ loc'[p].result = "Reset" =>
                        /\ ch \in DOMAIN manual_reset_timestamps'
                        /\ manual_reset_timestamps'[ch] = now]_vars

\* A reset has run in a scope while the other scope keeps its earlier floor
\* and the ledger has records.
C32_Witness ==
    \E p \in Procs :
        /\ Finished(p, "reset", "Reset")
        /\ manual_reset_timestamps[loc[p].channel_id] = now
        /\ \E other \in DOMAIN manual_reset_timestamps :
              /\ other # loc[p].channel_id
              /\ manual_reset_timestamps[other] < now
        /\ spots # {}

\* C33: with the handlers run one at a time, every elimination that commits
\* lowers the number of active players of the scope by one; while two or more
\* players are active each of them has another active player as its target,
\* and its claim against that target, with evidence, is accepted; the game is
\* declared won exactly when one player is left, after one elimination less
\* than it had players.
C33_GameProgressesToOneSurvivor ==
    [][\A ch \in RingChannels :
          /\ (\E p \in Procs :
                 /\ loc[p].op = "eliminate" /\ loc[p].channel_id = ch
                 /\ pc[p] = "elim_commit" /\ pc'[p] = "elim_recount")
                => Cardinality(ActiveRows(ch)') = Cardinality(ActiveRows(ch)) - 1
          /\ Cardinality(ActiveRows(ch)') >= 2 =>
                \A r \in ActiveRows(ch)' : \E q \in ActiveRows(ch)' :
                    q.player_id = r.target_id /\ q.player_id # r.player_id
          /\ \A p \in Procs :
                (pc'[p] = "finally" /\ loc'[p].op = "eliminate"
                     /\ loc'[p].channel_id = ch) =>
                    /\ (/\ loc'[p].has_files
                        /\ Cardinality(ActiveRows(ch)') >= 2
                        /\ \E r \in ActiveRows(ch)' :
                              /\ r.player_id = loc'[p].user_id
                              /\ r.target_id = loc'[p].victim_id)
                           => loc'[p].result \in {"Continue", "Win"}
                    /\ loc'[p].result = "Continue" =>
                           Cardinality(ActiveRows(ch)') >= 2
          /\ \A p \in Procs :
                (pc'[p] = "elim_purge" /\ loc'[p].channel_id = ch) =>
                    /\ Cardinality(ActiveRows(ch)') = 1
                    /\ Cardinality(ChannelEvents(ch)') =
                           Cardinality(ChannelRows(ch)') - 1]_vars

\* A game has been won: the rows are purged and the log holds the
\* eliminations that led there.
C33_Witness ==
    \E p \in Procs :
        /\ Finished(p, "eliminate", "Win")
        /\ Cardinality(loc[p].active_players) = 1
        /\ Cardinality(ChannelEvents(loc[p].channel_id)) >= 2
        /\ ChannelRows(loc[p].channel_id) = {}

\* C34: with the handlers run one at a time, when an eliminate finds the game
\* won, the winner it reports is its own killer, the killer of the latest
\* event of the scope's log; no event of the scope has the winner as victim,
\* and until the purge the winner's row is active.
C34_WinnerIsTheLastKiller ==
    \A p \in Procs :
        (/\ loc[p].op = "eliminate"
         /\ \/ pc[p] \in {"elim_purge", "elim_purge_commit"}
            \/ Finished(p, "eliminate", "Win")) =>
            LET ch == loc[p].channel_id
            IN  /\ loc[p].winner_id = loc[p].user_id
                /\ \E e \in ChannelEvents(ch) :
                      /\ e.killer_id = loc[p].winner_id
                      /\ e.victim_id = loc[p].victim_id
                      /\ \A f \in ChannelEvents(ch) : f.id <= e.id
                /\ \A e \in ChannelEvents(ch) : e.victim_id # loc[p].winner_id
                /\ pc[p] = "elim_purge" =>
                      \E r \in ActiveRows(ch) : r.player_id = loc[p].winner_id

\* An eliminate has reported a winner, after eliminations by more than one
\* killer.
C34_Witness ==
    \E p \in Procs :
        /\ Finished(p, "eliminate", "Win")
        /\ loc[p].winner_id = loc[p].user_id
        /\ \E e \in ChannelEvents(loc[p].channel_id) :
              e.killer_id # loc[p].winner_id

\* Invocation p has found the game of its scope won and announces the winner.
DeclaresWinner(p) ==
    /\ loc[p].op = "eliminate"
    /\ \/ pc[p] \in {"elim_purge", "elim_purge_commit"}
       \/ Finished(p, "eliminate", "Win")

\* C35: however eliminate handlers of a scope interleave, a scope with rows
\* has an active player, and the win of a game is declared by one handler
\* only, for one winner.
C35_OneWinnerDeclaredOnce ==
    /\ \A ch \in RingChannels : ChannelRows(ch) # {} => ActiveRows(ch) # {}
    /\ \A p, q \in Procs :
          (/\ DeclaresWinner(p) /\ DeclaresWinner(q)
           /\ loc[p].channel_id = loc[q].channel_id) => p = q

\* ------------------------------------------------- the ring in two scopes
RingScopes == {ChannelPool[1], ChannelPool[2]}

ScopesBegin(p) ==
    \E ch \in RingScopes :
        \/ StartBegin(p, ch, ADMIN_USER_ID, Users)
        \/ \E killer \in Users, victim \in Users :
               ElimBegin(p, ch, killer, <<victim>>, TRUE)
        \/ EndBegin(p, ch)

\* The rings of two scopes, each started by the admin with every user, one
\* handler at a time, MaxCalls handlers in all.
NextScopes ==
    \/ AllIdle /\ ScopesBegin(1) /\ Delivered /\ UNCHANGED globals
    \/ RingStep(1) /\ UNCHANGED <<globals, calls>>

SpecScopes == Init /\ [][NextScopes]_vars

\* C36: no step of a start, an eliminate or an abort of one scope changes the
\* rows or the log of another scope: a player of two games has its target,
\* its active flag and its kill_count in each of them apart.
C36_OtherScopesUntouched ==
    [][\A p \in Procs :
          loc[p].op \in {"start", "eliminate", "end"} =>
              \A ch \in RingScopes \ {loc[p].channel_id} :
                  /\ ChannelRows(ch)' = ChannelRows(ch)
                  /\ ChannelEvents(ch)' = ChannelEvents(ch)]_vars

\* An eliminate has succeeded in one scope while its killer and its victim
\* play in the other scope too: there the victim is still active and the
\* killer has no kill.
C36_Witness ==
    \E p \in Procs : \E other \in RingScopes :
        /\ Finished(p, "eliminate", "Continue")
        /\ other # loc[p].channel_id
        /\ \E r \in ActiveRows(other) :
              r.player_id = loc[p].victim_id
        /\ \E r \in ActiveRows(other) :
              r.player_id = loc[p].user_id /\ r.kill_count = 0
        /\ \E r \in ChannelRows(loc[p].channel_id) :
              r.player_id = loc[p].victim_id /\ ~r.is_active
        /\ \E r \in ChannelRows(loc[p].channel_id) :
              r.player_id = loc[p].user_id /\ r.kill_count = 1
        /\ ChannelEvents(other) = {}

\* --------------------------------------- handle_spot_message, the store fails
\* psycopg2.connect, an INSERT or conn.commit raises: the except branch logs
\* the error, nothing is committed.
SpotStoreFails(p) ==
    /\ pc[p] = "spot_insert"
    /\ Leave(p, [loc[p] EXCEPT !.error = "store"], "ErrorLogged")
    /\ UNCHANGED <<globals, store, tx>>

SpotFaultsStep(p) ==
    \/ SpotInsert(p) \/ SpotCommit(p)
    \/ SpotStoreFails(p)
    \/ Finally(p) /\ UNCHANGED globals

\* The ledger, one handler at a time; a message may be delivered again and
\* the store may fail a handler at any of its statements.
NextSpotFaults ==
    \/ AllIdle /\ (\E m \in Messages : SpotBegin(1, m)) /\ UNCHANGED calls
    \/ SpotFaultsStep(1) /\ UNCHANGED calls

SpecSpotFaults == Init /\ [][NextSpotFaults]_vars

\* C37: the records of one run of handle_spot_message are written all or
\* none.  A step the handler takes either leaves the ledger as it is, or it
\* is the commit that ends the run, after which every mentioned target other
\* than the scorer has a record of the scorer for the message.
C37_SpotRecordsAllOrNothing ==
    [][\A p \in Procs :
          (loc[p].op = "spot" /\ <<pc[p], loc[p], tx[p]>>' # <<pc[p], loc[p], tx[p]>>) =>
              \/ spots' = spots
              \/ /\ pc'[p] = "finally"
                 /\ loc'[p].result = "Recorded"
                 /\ \A u \in loc[p].mentioned_users \ {loc[p].user_id} :
                       \E r \in spots' :
                           /\ SpotKey(r) = <<loc[p].message_ts, u>>
                           /\ r.spotter_id = loc[p].user_id
                           /\ r.channel_id = loc[p].channel_id]_vars

\* The store failed a run after its first insert, with a second target still
\* to come: one record is pending and the ledger has no record of the message.
C37_Witness ==
    \E p \in Procs :
        /\ pc[p] = "finally"
        /\ loc[p].op = "spot"
        /\ loc[p].error = "store"
        /\ Cardinality(tx[p].insS) = 1
        /\ loc[p].todo # <<>>
        /\ \A r \in spots : r.message_ts # loc[p].message_ts

\* winner_result is what the records of season `season` in scope ch make it:
\* None without a valid record, else a scorer and its sum of scorer points
\* over all of them, no scorer having more.
IsSeasonWinner(winner_result, ch, season) ==
    LET all == {r \in spots :
                   r.is_valid /\ r.channel_id = ch /\ r.season_id = season}
        Total(u) == SumOf({r \in all : r.spotter_id = u}, "spotter_points")
    IN  IF all = {} THEN winner_result = None
        ELSE /\ winner_result # None
             /\ winner_result[1] \in {r.spotter_id : r \in all}
             /\ winner_result[2] = Total(winner_result[1])
             /\ \A r \in all : Total(r.spotter_id) <= winner_result[2]

\* C38: the winner a manual reset announces, and the winner the rollover job
\* announces for a scope, is a scorer with the highest sum of scorer points
\* over all valid records of the processed season id in the scope, the records
\* from before a reset floor of the scope counted too.
C38_WinnerCountsTheWholeSeason ==
    \A p \in Procs :
        /\ (loc[p].op = "reset" /\ pc[p] \in {"reset_set", "finally"}) =>
               IsSeasonWinner(loc[p].results[1], loc[p].channel_id,
                              loc[p].current_season)
        /\ loc[p].op = "rollover" =>
               \A i \in DOMAIN loc[p].results :
                   loc[p].results[i][2] \in {"Announced", "NotifierFailed"} =>
                       IsSeasonWinner(loc[p].results[i][3], loc[p].results[i][1],
                                      loc[p].previous_season_id)

\* A manual reset of a scope that has a floor already has found its winner,
\* and every record of the winner in the season is from before that floor.
C38_Witness ==
    \E p \in Procs :
        /\ loc[p].op = "reset" /\ pc[p] = "reset_set"
        /\ loc[p].channel_id \in DOMAIN manual_reset_timestamps
        /\ loc[p].results[1] # None
        /\ \A r \in spots :
              (/\ r.channel_id = loc[p].channel_id
               /\ r.season_id = loc[p].current_season
               /\ r.spotter_id = loc[p].results[1][1]) =>
                  r.created_at < manual_reset_timestamps[loc[p].channel_id]

\* C39: a scope that an abort has left without rows and without events stays
\* so until a start commits, whatever eliminate handlers that began before
\* the abort do afterwards: only the commit of a start gives an empty scope a
\* row or an event.
C39_AbortedScopeStaysEmpty ==
    [][\A ch \in RingChannels :
          (/\ ChannelRows(ch) = {} /\ ChannelEvents(ch) = {}
           /\ (ChannelRows(ch)' # {} \/ ChannelEvents(ch)' # {})) =>
              \E p \in Procs :
                  /\ loc[p].op = "start" /\ loc[p].channel_id = ch
                  /\ pc[p] = "start_commit" /\ pc'[p] = "start_announce"]_vars

====
